---- MODULE Spec2Model ----
(***************************************************************************)
(* Verification model of ai-kanban: the task consumer (consumer.py), the   *)
(* artificial employee aggregate (domain/artificial_employee.py), the task *)
(* status service (domain/services.py) and the employee workflow graphs    *)
(* (workflows/employee_workflow.py).                                       *)
(*                                                                         *)
(* The first five specifications of this module:                           *)
(*   Spec       - TaskConsumer.process_message run as asyncio callbacks    *)
(*   SpecStatus - TaskStatusService called on arbitrary tasks              *)
(*   SpecWF     - EmployeeWorkflowGraph.execute, one run through a graph   *)
(*   SpecEmp    - the operations of one ArtificialEmployee object          *)
(*   SpecReg    - the operations of one EmployeeRegistry                   *)
(* and, further down:                                                      *)
(*   SpecLive   - Spec, with every awaited call returning in the end       *)
(*   SpecStop   - the consumer with start_consuming and stop()             *)
(*   SpecRuns   - two concurrent execute calls on one workflow object      *)
(*   SpecCheck  - EventCheck.matches on arbitrary checks and tasks         *)
(*   SpecTracker - TaskTracker.mark_task_processed called by threads       *)
(*   SpecEvents - FileEventRepository: store_event and the two queries     *)
(*   SpecFind   - find_assigned_employee on a registry built by calls      *)
(*   SpecSinkOk - SpecLive with a status sink whose calls all succeed      *)
(*   SpecMonitor - TaskMonitorService.check_for_new_tasks, cycle by cycle  *)
(*                                                                         *)
(* asyncio runs coroutines on one thread: code between two awaits is       *)
(* atomic.  Every action below therefore is "an awaited call returns,      *)
(* and the code runs on up to the next await".                             *)
(***************************************************************************)
EXTENDS Integers, Sequences, FiniteSets, Bags, TLC

(***************************************************************************)
(* Bounds of the model.                                                    *)
(***************************************************************************)
\* number of messages the broker delivers
MaxMsgs == 3
\* max_concurrent_tasks handed to TaskConsumer (consumer.py:30, a parameter)
MaxConcurrentTasks == 2

VARIABLES
    pipe,        \* per message: the process_message coroutine (position, locals, history)
    sem,         \* TaskConsumer.semaphore: free admission slots
    sinkStatus,  \* external task status held by the task repository (Notion)
    aiProcessed, \* external "ai processed" checkbox per task
    emp,         \* per employee: is_active, counters, pending domain events
    eventStore,  \* events handed to event_repository.store_event: a bag
    svc,         \* SpecStatus: the TaskStatusService call under way and the sink it writes
    wf,          \* SpecWF: one EmployeeWorkflowGraph.execute run
    hnd,         \* SpecEmp: one ArtificialEmployee object and the call made on it
    reg,         \* SpecReg: one EmployeeRegistry and the call made on it
    life,        \* SpecStop: TaskConsumer.running, the connection, start_consuming's position
    runs,        \* SpecRuns: two EmployeeWorkflowGraph.execute calls and the objects they allocate
    chk,         \* SpecCheck: one EventCheck, the task and employee it is evaluated on
    tracker,     \* SpecTracker: one TaskTracker, its storage file and the threads calling it;
                 \* SpecMonitor: the TaskTracker of one TaskMonitorService and its polling cycle
    evrepo       \* SpecEvents: one FileEventRepository, its events file and the last query

consumerVars == <<pipe, sem, sinkStatus, aiProcessed, emp, eventStore>>

\* the variables of the specifications that follow the first five
sideVars == <<life, runs, chk, tracker, evrepo>>

vars == <<pipe, sem, sinkStatus, aiProcessed, emp, eventStore, svc, wf, hnd, reg, sideVars>>

Msgs == 1..MaxMsgs

(***************************************************************************)
(* domain/events.py                                                        *)
(***************************************************************************)
TO_DO == "To Do"
IN_PROGRESS == "In Progress"
DONE == "Done"
CANCELLED == "Cancelled"
\* class TaskStatus(Enum)
TaskStatus == {TO_DO, IN_PROGRESS, DONE, CANCELLED}

\* str.lower() and str.strip() on the name strings the model uses
Lower(s) ==
    CASE s = "Alice" -> "alice"
      [] s = " Alice " -> " alice "
      [] s = "Bob" -> "bob"
      [] s = "Carol" -> "carol"
      [] s = "Zed" -> "zed"
      [] OTHER -> s

Strip(s) ==
    CASE s = " Alice " -> "Alice"
      [] s = " alice " -> "alice"
      [] s = " " -> ""
      [] OTHER -> s

\* str.upper() on the operator strings the model uses
Upper(s) ==
    CASE s = "and" -> "AND"
      [] s = "or" -> "OR"
      [] s = "xor" -> "XOR"
      [] OTHER -> s

\* NotionTask.has_ai_employee_assigned; "None" stands for Python's None
has_ai_employee_assigned(task) ==
    task.ai_employee # "None" /\ Strip(task.ai_employee) # ""

\* the mutant: the two names are compared as they are
is_assigned_to_employee_Exact(task, employee_name) ==
    IF ~has_ai_employee_assigned(task) THEN FALSE
    ELSE task.ai_employee = employee_name

\* NotionTask.is_assigned_to_employee
is_assigned_to_employee(task, employee_name) ==
    IF ~has_ai_employee_assigned(task) THEN FALSE
    ELSE Strip(Lower(task.ai_employee)) = Strip(Lower(employee_name))

\* NotionTask.can_be_processed
can_be_processed(task) ==
    task.status \in {TO_DO, IN_PROGRESS} /\ has_ai_employee_assigned(task)

(***************************************************************************)
(* domain/event_checks.py: checks are records tagged by class.             *)
(***************************************************************************)
AssignmentCheck == [type |-> "Assignment"]
KeywordCheck(keywords) == [type |-> "Keyword", keywords |-> keywords]
StatusCheck(statuses) == [type |-> "Status", statuses |-> statuses \cap TaskStatus]
ContentLengthCheck(min_length) == [type |-> "ContentLength", min_length |-> min_length]
\* the mutant: CompositeCheck.__init__ without its test of the operator
composite_init_Unchecked(operator) == "ok"

\* CompositeCheck.__init__: the operator is upper-cased, then tested
composite_init(operator) ==
    IF Upper(operator) \notin {"AND", "OR"} THEN "ValueError" ELSE "ok"

\* the object CompositeCheck.__init__ leaves when it does not raise
CompositeCheck(checks, operator) ==
    [type |-> "Composite", checks |-> checks, operator |-> Upper(operator)]

RECURSIVE matches(_, _, _)
\* EventCheck.matches(event, employee) of each subclass
matches(check, task, employee_name) ==
    CASE check.type = "Assignment" -> is_assigned_to_employee(task, employee_name)
      [] check.type = "Keyword" -> check.keywords \cap task.words # {}
      [] check.type = "Status" -> task.status \in check.statuses
      [] check.type = "ContentLength" -> task.length >= check.min_length
      [] check.type = "Composite" ->
            IF Len(check.checks) = 0 THEN FALSE
            ELSE IF check.operator = "AND"
                 THEN \A i \in 1..Len(check.checks) : matches(check.checks[i], task, employee_name)
            ELSE IF check.operator = "OR"
                 THEN \E i \in 1..Len(check.checks) : matches(check.checks[i], task, employee_name)
            ELSE FALSE
      [] OTHER -> FALSE

(***************************************************************************)
(* The registry the consumer is given.  It is built through                *)
(* register_employee / add_reaction / add_workflow before consuming starts *)
(* and the consumer never changes it: Alice reacts to any task assigned to *)
(* her and has her workflow registered; Bob reacts to "spec" tasks with a  *)
(* workflow type that was never registered.                                *)
(***************************************************************************)
Employees == {"Alice", "Bob"}

\* the employee SpecEmp works on: its reactions and workflows are not fixed
\* beforehand, add_reaction and add_workflow build them in hnd
Handler == "Carol"

\* ArtificialEmployee._reactions, already sorted by add_reaction
Reactions(h) ==
    IF h = "Alice"
    THEN << [event_check |-> AssignmentCheck, workflow_type |-> "default", priority |-> 0] >>
    ELSE IF h = Handler THEN hnd.reactions
    ELSE << [event_check |-> CompositeCheck(<<AssignmentCheck, KeywordCheck({"spec"})>>, "AND"),
             workflow_type |-> "specification", priority |-> 10] >>

\* keys of ArtificialEmployee._workflows
Workflows(h) == IF h = "Alice" THEN {"default"} ELSE IF h = Handler THEN hnd.workflows ELSE {}

\* EmployeeRegistry.get_employee_by_name: the dict is keyed by name.lower()
get_employee_by_name(name) ==
    IF \E h \in Employees : Lower(h) = Lower(name)
    THEN CHOOSE h \in Employees : Lower(h) = Lower(name)
    ELSE "None"

\* the mutant: the is_active test is left out
can_handle_task_type_IgnoreActive(h, is_active, task) ==
    IF ~is_assigned_to_employee(task, h) THEN FALSE
    ELSE \E i \in 1..Len(Reactions(h)) : matches(Reactions(h)[i].event_check, task, h)

\* ArtificialEmployee.can_handle_task_type
can_handle_task_type(h, is_active, task) ==
    IF ~is_active THEN FALSE
    ELSE IF ~is_assigned_to_employee(task, h) THEN FALSE
    ELSE \E i \in 1..Len(Reactions(h)) : matches(Reactions(h)[i].event_check, task, h)

\* the mutant: the scan stops at the first matching reaction, registered or not
get_applicable_workflow_FirstMatchOnly(h, task) ==
    LET hits == {i \in 1..Len(Reactions(h)) : matches(Reactions(h)[i].event_check, task, h)}
        first == CHOOSE i \in hits : \A j \in hits : i <= j
    IN IF hits = {} THEN "None"
       ELSE IF Reactions(h)[first].workflow_type \in Workflows(h)
            THEN Reactions(h)[first].workflow_type
       ELSE "None"

\* the mutant: the first matching reaction's workflow is used whether or not it is registered
get_applicable_workflow_Unregistered(h, task) ==
    LET hits == {i \in 1..Len(Reactions(h)) : matches(Reactions(h)[i].event_check, task, h)}
    IN IF hits = {} THEN "None"
       ELSE Reactions(h)[CHOOSE i \in hits : \A j \in hits : i <= j].workflow_type

\* ArtificialEmployee.get_applicable_workflow: first matching reaction, in list
\* order, whose workflow_type is registered; "None" when there is none
get_applicable_workflow(h, task) ==
    LET hits == {i \in 1..Len(Reactions(h)) :
                    /\ matches(Reactions(h)[i].event_check, task, h)
                    /\ Reactions(h)[i].workflow_type \in Workflows(h)}
    IN IF hits = {} THEN "None"
       ELSE Reactions(h)[CHOOSE i \in hits : \A j \in hits : i <= j].workflow_type

(***************************************************************************)
(* domain/services.py: TaskAssignmentService                               *)
(***************************************************************************)
\* TaskAssignmentService.find_assigned_employee
find_assigned_employee(task) ==
    IF ~has_ai_employee_assigned(task) THEN "None"
    ELSE get_employee_by_name(task.ai_employee)

\* TaskAssignmentService.can_employee_handle_task
can_employee_handle_task(h, is_active, task) ==
    IF ~is_assigned_to_employee(task, h) THEN FALSE
    ELSE can_handle_task_type(h, is_active, task)

\* TaskAssignmentService._analyze_capability_failure: after the is_active
\* test it iterates `employee.reactions`; ArtificialEmployee keeps its list
\* in `_reactions` and defines no attribute `reactions`, so the call raises
analyze_capability_failure == "AttributeError"

\* TaskAssignmentService.validate_assignment: "True", "False", or the
\* exception that leaves it.  The first two failing branches only log; the
\* third builds its diagnostic with _analyze_capability_failure before it
\* would return can_handle.
validate_assignment(task, active) ==
    IF ~can_be_processed(task) THEN "False"
    ELSE IF find_assigned_employee(task) = "None" THEN "False"
    ELSE IF can_employee_handle_task(find_assigned_employee(task),
                                     active[find_assigned_employee(task)], task)
         THEN "True"
    ELSE analyze_capability_failure

(***************************************************************************)
(* domain/services.py: TaskStatusService.  The guards are separated from   *)
(* the awaited repository call: "call" means update_task_status is invoked *)
(* and its boolean result is returned.                                     *)
(***************************************************************************)
\* TaskStatusService._normalize_status: an enum member gives its value, a string itself
normalize_status(status) == status.value

\* a task status as the enum member / as a plain string
EnumStatus(v) == [kind |-> "enum", value |-> v]
StrStatus(v) == [kind |-> "str", value |-> v]

\* the mutant: the guard admits every status that is not already In Progress
transition_to_in_progress_Unguarded(status) ==
    IF normalize_status(status) = IN_PROGRESS THEN "true" ELSE "call"

\* TaskStatusService.transition_to_in_progress up to the repository call
transition_to_in_progress(status) ==
    IF normalize_status(status) = IN_PROGRESS THEN "true"
    ELSE IF normalize_status(status) \notin {TO_DO} THEN "false"
    ELSE "call"

\* TaskStatusService.transition_to_done up to the repository call
transition_to_done(status) ==
    IF normalize_status(status) = DONE THEN "true"
    ELSE IF normalize_status(status) \notin {IN_PROGRESS} THEN "false"
    ELSE "call"

(***************************************************************************)
(* infrastructure/notion_mapper.py and the message bodies                  *)
(***************************************************************************)
\* NotionTaskMapper._extract_status: an unrecognised name maps to TO_DO
extract_status(status_name) ==
    IF status_name \in TaskStatus THEN status_name ELSE TO_DO

Body(json, id, status_name, ai_employee, words) ==
    [json |-> json, id |-> id, status |-> status_name, ai_employee |-> ai_employee, words |-> words]

\* The bodies a message may carry: not JSON; task t1 assigned to Alice, as
\* published while To Do and (a second delivery) while In Progress; a task
\* that is already Done; a task without assignment; a task assigned to
\* nobody registered; tasks assigned to Bob that match none of his reactions
\* / match a reaction whose workflow is not registered.
Bodies ==
    << Body(FALSE, "", "", "None", {}),
       Body(TRUE, "t1", "To Do", "Alice", {}),
       Body(TRUE, "t1", "In Progress", "alice", {}),
       Body(TRUE, "t2", "Done", "Alice", {}),
       Body(TRUE, "t2", "To Do", "None", {}),
       Body(TRUE, "t2", "To Do", "Zed", {}),
       Body(TRUE, "t2", "To Do", "Bob", {}),
       Body(TRUE, "t2", "To Do", "Bob", {"spec"}) >>

TaskIds == {"t1", "t2"}

\* the mutant: a body that is not JSON is decoded all the same
json_loads_Lenient(body) == TRUE

\* json.loads(message.body.decode()): FALSE stands for JSONDecodeError
json_loads(body) == body.json

\* NotionTaskMapper.map_to_domain: the task built from a decoded body
map_to_domain(body) ==
    [notion_id |-> body.id, status |-> extract_status(body.status),
     ai_employee |-> body.ai_employee, words |-> body.words, length |-> 30]

\* What NotionTask.from_notion_data(task_data) can do at its call site: hand
\* back the task, or raise.  The NotionTask constructor raises ValueError on
\* an empty notion_id or a blank title (events.py:55-58).  map_to_domain also
\* passes the keyword ai_processed (notion_mapper.py:58), which the NotionTask dataclass
\* of events.py:28-51 does not declare, and a constructor call with an
\* undeclared keyword raises TypeError: with the two files as they stand the
\* call raises for every body.  process_message and its tests
\* (tests/test_consumer.py:85-147) are written for a mapper that returns a
\* task, so both outcomes are kept; every safety property checked here
\* holds a fortiori when the call always raises.
from_notion_data_outcomes(body) == {"task", "raise"}

NoTask == [notion_id |-> "", status |-> TO_DO, ai_employee |-> "None", words |-> {}, length |-> 0]

(***************************************************************************)
(* consumer.py: TaskConsumer.process_message                               *)
(***************************************************************************)
InitPipe(body) ==
    [pc |-> "waiting", body |-> body, task |-> NoTask, employee |-> "None",
     result |-> "none", ops |-> {}, toStore |-> <<>>,
     settled |-> 0, settle |-> "none", exc |-> "none", requeued |-> FALSE]

\* positions at which the coroutine holds an admission slot
InGate == {"content", "toInProgress", "workflow", "comment", "toDone",
           "aiProcessed", "revert", "storeEvents", "settling"}

\* last_activity: 0 stands for None, n for the time of the n-th write to it
InitEmployee == [is_active |-> TRUE, tasks_processed |-> 0, success_count |-> 0,
                 last_activity |-> 0, domain_events |-> <<>>]

\* svc and wf while the specification at hand is not about them
IdleSvc == [pc |-> "off"]
IdleWf == [node |-> "off"]
IdleHnd == [pc |-> "off"]
IdleReg == [pc |-> "off"]
\* the handler and the registry objects of SpecEmp and SpecReg, not in use
DomainOff == hnd = IdleHnd /\ reg = IdleReg

\* the variables of SpecStop, SpecRuns, SpecCheck, SpecTracker and SpecEvents, not in use
IdleSide == [pc |-> "off"]
SideOff ==
    /\ life = IdleSide
    /\ runs = IdleSide
    /\ chk = IdleSide
    /\ tracker = IdleSide
    /\ evrepo = IdleSide

\* the consumer before any message is taken: every message carries one of
\* the bodies, nothing is in flight, every task is To Do at the sink
ConsumerInit ==
    /\ \E f \in [Msgs -> 1..Len(Bodies)] :
          \* messages are interchangeable: one order of each choice of bodies is enough
          /\ \A m \in Msgs : m + 1 \in Msgs => f[m] <= f[m + 1]
          /\ pipe = [m \in Msgs |-> InitPipe(Bodies[f[m]])]
    /\ sem = MaxConcurrentTasks
    /\ sinkStatus = [t \in TaskIds |-> TO_DO]
    /\ aiProcessed = [t \in TaskIds |-> FALSE]
    /\ emp = [h \in Employees |-> InitEmployee]
    /\ eventStore = EmptyBag

\* the consumer variables while the specification at hand is not about them
ConsumerOff ==
    /\ pipe = [m \in Msgs |-> InitPipe(Bodies[1])]
    /\ sem = MaxConcurrentTasks
    /\ sinkStatus = [t \in TaskIds |-> TO_DO]
    /\ aiProcessed = [t \in TaskIds |-> FALSE]
    /\ emp = [h \in Employees |-> InitEmployee]
    /\ eventStore = EmptyBag

Init == ConsumerInit /\ svc = IdleSvc /\ wf = IdleWf /\ DomainOff /\ SideOff

\* the mutant: the slot is taken whether or not one is free
semaphore_free_Ungated == TRUE

\* asyncio.Semaphore: acquire goes through only while the value is positive
semaphore_free == sem > 0

\* the mutant: the message is acknowledged on receipt, before it is processed
message_process_enter_AckFirst(r) == [r EXCEPT !.settled = @ + 1]

\* message.process().__aenter__: nothing is settled on entry
message_process_enter(r) == r

\* message.process() is called with its defaults: a rejected message is not requeued
requeue_on_reject == FALSE

\* message.process().__aexit__: ack on a normal exit, reject when an exception leaves the block
message_process_exit(r) ==
    [r EXCEPT !.settled = @ + 1,
              !.requeued = (r.settle = "reject" /\ requeue_on_reject)]

\* the mutant: only the JSONDecodeError clause is there
outer_except_JsonOnly(exc) == exc = "JSONDecodeError"

\* the except clauses closing process_message: JSONDecodeError, then Exception
outer_except(exc) == exc = "JSONDecodeError" \/ exc \in {"TypeError", "ValueError", "AttributeError"}

\* `return` inside `async with message.process()`: the block is left normally
Return(r) == [r EXCEPT !.pc = "settling", !.settle = "ack"]

\* an exception leaves `async with message.process()`
RaiseOuter(r, exc) == [r EXCEPT !.pc = "settling", !.settle = "reject", !.exc = exc, !.toStore = <<>>]

\* the inner except of process_message: log, then await revert_to_todo
RaiseInner(r) == [r EXCEPT !.pc = "revert", !.ops = @ \cup {"revert"}]

\* the mutant: the test of the resolved workflow is left out
process_task_pre_NoWorkflowTest(h, is_active, task) ==
    IF ~is_assigned_to_employee(task, h) THEN "not_assigned"
    ELSE IF ~can_handle_task_type(h, is_active, task) THEN "cannot_handle"
    ELSE "ok"

\* the checks that open ArtificialEmployee.process_task; each failure raises ValueError
process_task_pre(h, is_active, task) ==
    IF ~is_assigned_to_employee(task, h) THEN "not_assigned"
    ELSE IF ~can_handle_task_type(h, is_active, task) THEN "cannot_handle"
    ELSE IF get_applicable_workflow(h, task) = "None" THEN "no_workflow"
    ELSE "ok"

\* process_message from the successful transition to In Progress up to the
\* next await: the task is rebuilt with status In Progress, process_task is
\* called and runs to `await workflow.execute`, or raises into the inner except
BeginProcess(r, active) ==
    LET task == [r.task EXCEPT !.status = IN_PROGRESS]
        r1 == [r EXCEPT !.task = task]
    IN IF process_task_pre(r.employee, active[r.employee], task) = "ok"
       THEN [r1 EXCEPT !.pc = "workflow"]
       ELSE RaiseInner([r1 EXCEPT !.result = "raised"])

\* process_message from the semaphore to the first await
StartPipeline(r0, mapped, active) ==
    LET r == message_process_enter(r0)
        task == map_to_domain(r.body)
        r1 == [r EXCEPT !.task = task]
    IN IF ~json_loads(r.body) THEN RaiseOuter(r, "JSONDecodeError")
       ELSE IF mapped = "raise" THEN RaiseOuter(r, "TypeError")
       ELSE IF validate_assignment(task, active) = "AttributeError"
            THEN RaiseOuter(r1, "AttributeError")
       ELSE IF validate_assignment(task, active) = "False" THEN Return(r1)
       ELSE IF find_assigned_employee(task) = "None" THEN Return(r1)
       ELSE [r1 EXCEPT !.employee = find_assigned_employee(task),
                       !.pc = "content"]

Active == [h \in Employees |-> emp[h].is_active]

\* async with self.semaphore; async with message.process(); lines 91-108
ProcessMessageStart(m) ==
    /\ pipe[m].pc = "waiting"
    /\ semaphore_free
    /\ sem' = sem - 1
    /\ \E mapped \in from_notion_data_outcomes(pipe[m].body) :
          pipe' = [pipe EXCEPT ![m] = StartPipeline(pipe[m], mapped, Active)]
    /\ UNCHANGED <<sinkStatus, aiProcessed, emp, eventStore, svc, wf, hnd, reg, sideVars>>

\* get_full_task_content returns: the mapper leaves content empty, so the
\* content is always fetched; NotionTaskRepository.get_task_content hands back
\* the text or None and never raises.  Then transition_to_in_progress runs
\* up to its repository call.
ContentReturns(m) ==
    /\ pipe[m].pc = "content"
    /\ LET r == pipe[m]
           t == transition_to_in_progress(EnumStatus(r.task.status))
       IN pipe' = [pipe EXCEPT ![m] =
             IF t = "true" THEN BeginProcess(r, Active)
             ELSE IF t = "false" THEN Return(r)
             ELSE [r EXCEPT !.pc = "toInProgress"]]
    /\ UNCHANGED <<sem, sinkStatus, aiProcessed, emp, eventStore, svc, wf, hnd, reg, sideVars>>

\* NotionTaskRepository.update_task_status catches every exception of the
\* Notion client and returns False: the sink answers true or false
SinkOutcomes == {"true", "false"}

\* the mutant: the result of transition_to_in_progress is not looked at
InProgressReturns_Unchecked(m, o) ==
    /\ pipe[m].pc = "toInProgress"
    /\ LET r == pipe[m] IN
         /\ pipe' = [pipe EXCEPT ![m] = BeginProcess(r, Active)]
         /\ sinkStatus' = IF o = "true" THEN [sinkStatus EXCEPT ![r.task.notion_id] = IN_PROGRESS]
                          ELSE sinkStatus
    /\ UNCHANGED <<sem, aiProcessed, emp, eventStore, svc, wf, hnd, reg, sideVars>>

\* update_task_status(id, "In Progress") returns o; lines 113-142
InProgressReturns(m, o) ==
    /\ pipe[m].pc = "toInProgress"
    /\ LET r == pipe[m] IN
         /\ pipe' = [pipe EXCEPT ![m] = IF o = "false" THEN Return(r) ELSE BeginProcess(r, Active)]
         /\ sinkStatus' = IF o = "true" THEN [sinkStatus EXCEPT ![r.task.notion_id] = IN_PROGRESS]
                          ELSE sinkStatus
    /\ UNCHANGED <<sem, aiProcessed, emp, eventStore, svc, wf, hnd, reg, sideVars>>

\* a domain event: its class, the employee that raised it, the message it belongs to
Event(kind, h, m) == [kind |-> kind, employee_id |-> h, msg |-> m]

\* the mutant: the except branch of process_task records no event
process_task_complete_NoFailedEvent(e, o, h, m) ==
    IF o = "raise"
    THEN [e EXCEPT !.tasks_processed = @ + 1,
                   !.last_activity = @ + 1]
    ELSE [e EXCEPT !.tasks_processed = @ + 1,
                   !.success_count = IF o = "success" THEN @ + 1 ELSE @,
                   !.last_activity = @ + 1,
                   !.domain_events = Append(@, Event("TaskProcessed", h, m))]

\* the mutant: the except branch of process_task forgets its increment
process_task_complete_LostCount(e, o, h, m) ==
    IF o = "raise"
    THEN [e EXCEPT !.last_activity = @ + 1,
                   !.domain_events = Append(@, Event("TaskProcessingFailed", h, m))]
    ELSE [e EXCEPT !.tasks_processed = @ + 1,
                   !.success_count = IF o = "success" THEN @ + 1 ELSE @,
                   !.last_activity = @ + 1,
                   !.domain_events = Append(@, Event("TaskProcessed", h, m))]

\* ArtificialEmployee.process_task after `await workflow.execute`: o is the
\* returned result's success ("success"/"failure") or "raise"; no await
\* separates the reads and writes of the counters
process_task_complete(e, o, h, m) ==
    IF o = "raise"
    THEN [e EXCEPT !.tasks_processed = @ + 1,
                   !.last_activity = @ + 1,
                   !.domain_events = Append(@, Event("TaskProcessingFailed", h, m))]
    ELSE [e EXCEPT !.tasks_processed = @ + 1,
                   !.success_count = IF o = "success" THEN @ + 1 ELSE @,
                   !.last_activity = @ + 1,
                   !.domain_events = Append(@, Event("TaskProcessed", h, m))]

\* what workflow.execute hands to process_task
WorkflowOutcomes == {"success", "failure", "raise"}

\* the mutant: a failed run leaves process_message without the revert
WorkflowReturns_NoRevert(m, o) ==
    /\ pipe[m].pc = "workflow"
    /\ LET r == pipe[m]
           h == r.employee
       IN /\ emp' = [emp EXCEPT ![h] = process_task_complete(emp[h], o, h, m)]
          /\ pipe' = [pipe EXCEPT ![m] =
                IF o = "success"
                THEN [r EXCEPT !.result = "success", !.pc = "comment"]
                ELSE Return([r EXCEPT !.result = "failure"])]
    /\ UNCHANGED <<sem, sinkStatus, aiProcessed, eventStore, svc, wf, hnd, reg, sideVars>>

\* workflow.execute returns or raises; process_task finishes; lines 142-146, 155-158
WorkflowReturns(m, o) ==
    /\ pipe[m].pc = "workflow"
    /\ LET r == pipe[m]
           h == r.employee
       IN /\ emp' = [emp EXCEPT ![h] = process_task_complete(emp[h], o, h, m)]
          /\ pipe' = [pipe EXCEPT ![m] =
                IF o = "success"
                THEN [r EXCEPT !.result = "success", !.pc = "comment"]
                ELSE [r EXCEPT !.result = "failure", !.pc = "revert", !.ops = @ \cup {"revert"}]]
    /\ UNCHANGED <<sem, sinkStatus, aiProcessed, eventStore, svc, wf, hnd, reg, sideVars>>

\* the mutant: a comment that could not be posted ends the pipeline
CommentReturns_StopsOnFailure(m, o) ==
    /\ pipe[m].pc = "comment"
    /\ LET r == pipe[m]
           t == transition_to_done(EnumStatus(r.task.status))
       IN pipe' = [pipe EXCEPT ![m] =
             IF o = "false" THEN Return(r)
             ELSE IF t = "call" THEN [r EXCEPT !.pc = "toDone"]
             ELSE [r EXCEPT !.pc = "aiProcessed"]]
    /\ UNCHANGED <<sem, sinkStatus, aiProcessed, emp, eventStore, svc, wf, hnd, reg, sideVars>>

\* post_comment_to_task returns o (_post_result_to_notion absorbs a failure);
\* then transition_to_done up to its repository call; lines 146-149
CommentReturns(m, o) ==
    /\ pipe[m].pc = "comment"
    /\ LET r == pipe[m]
           t == transition_to_done(EnumStatus(r.task.status))
       IN pipe' = [pipe EXCEPT ![m] =
             IF t = "call" THEN [r EXCEPT !.pc = "toDone"]
             ELSE [r EXCEPT !.pc = "aiProcessed"]]
    /\ UNCHANGED <<sem, sinkStatus, aiProcessed, emp, eventStore, svc, wf, hnd, reg, sideVars>>

\* update_task_status(id, "Done") returns o; its result is not looked at; lines 149-152
DoneReturns(m, o) ==
    /\ pipe[m].pc = "toDone"
    /\ LET r == pipe[m] IN
         /\ pipe' = [pipe EXCEPT ![m] =
               [r EXCEPT !.pc = "aiProcessed",
                         !.ops = IF o = "true" THEN @ \cup {"doneSet"} ELSE @]]
         /\ sinkStatus' = IF o = "true" THEN [sinkStatus EXCEPT ![r.task.notion_id] = DONE]
                          ELSE sinkStatus
    /\ UNCHANGED <<sem, aiProcessed, emp, eventStore, svc, wf, hnd, reg, sideVars>>

\* the mutant: get_domain_events hands out the queue without clearing it
Drain_NoClear(m, r) ==
    LET h == r.employee
        events == emp[h].domain_events
    IN /\ emp' = emp
       /\ pipe' = [pipe EXCEPT ![m] =
             IF events = <<>> THEN Return(r)
             ELSE [r EXCEPT !.pc = "storeEvents", !.toStore = events]]

\* ArtificialEmployee.get_domain_events, called by _store_domain_events: the
\* queue is copied and cleared; each copied event is then stored with an await
Drain(m, r) ==
    LET h == r.employee
        events == emp[h].domain_events
    IN /\ emp' = [emp EXCEPT ![h].domain_events = <<>>]
       /\ pipe' = [pipe EXCEPT ![m] =
             IF events = <<>> THEN Return(r)
             ELSE [r EXCEPT !.pc = "storeEvents", !.toStore = events]]

\* task_repository.update_ai_processed returns or raises.  Neither the
\* TaskRepository interface (domain/repositories.py:49-68) nor
\* NotionTaskRepository (infrastructure/repositories.py:267-357) defines the
\* method: on the repository RepositoryFactory builds, the call raises
\* AttributeError; "ok" is a repository that has the method.  Lines 152-165.
AiProcessedReturns(m, o) ==
    /\ pipe[m].pc = "aiProcessed"
    /\ IF o = "raise"
       THEN /\ pipe' = [pipe EXCEPT ![m] = RaiseInner(pipe[m])]
            /\ UNCHANGED <<aiProcessed, emp>>
       ELSE /\ aiProcessed' = [aiProcessed EXCEPT ![pipe[m].task.notion_id] = TRUE]
            /\ Drain(m, pipe[m])
    /\ UNCHANGED <<sem, sinkStatus, eventStore, svc, wf, hnd, reg, sideVars>>

\* TaskStatusService.revert_to_todo: update_task_status(id, "To Do") returns o; lines 158-165
RevertReturns(m, o) ==
    /\ pipe[m].pc = "revert"
    /\ sinkStatus' = IF o = "true"
                     THEN [sinkStatus EXCEPT ![pipe[m].task.notion_id] = TO_DO]
                     ELSE sinkStatus
    /\ Drain(m, pipe[m])
    /\ UNCHANGED <<sem, aiProcessed, eventStore, svc, wf, hnd, reg, sideVars>>

\* event_repository.store_event(event) returns inside the loop of
\* _store_domain_events (lines 202-207); FileEventRepository.store_event
\* catches its own failures, so the loop always goes on to the next event
StoreEventReturns(m) ==
    /\ pipe[m].pc = "storeEvents"
    /\ LET r == pipe[m] IN
         /\ eventStore' = eventStore (+) SetToBag({Head(r.toStore)})
         /\ pipe' = [pipe EXCEPT ![m] =
               IF Len(r.toStore) = 1 THEN Return([r EXCEPT !.toStore = <<>>])
               ELSE [r EXCEPT !.toStore = Tail(@)]]
    /\ UNCHANGED <<sem, sinkStatus, aiProcessed, emp, svc, wf, hnd, reg, sideVars>>

\* the message is settled by message.process().__aexit__, the exception (if
\* any) reaches the except clauses, and `async with self.semaphore` releases
Settle(m) ==
    /\ pipe[m].pc = "settling"
    /\ LET r == message_process_exit(pipe[m]) IN
         pipe' = [pipe EXCEPT ![m] =
            IF r.exc = "none" THEN [r EXCEPT !.pc = "done"]
            ELSE IF outer_except(r.exc) THEN [r EXCEPT !.pc = "done", !.exc = "none"]
            ELSE [r EXCEPT !.pc = "escaped"]]
    /\ sem' = sem + 1
    /\ UNCHANGED <<sinkStatus, aiProcessed, emp, eventStore, svc, wf, hnd, reg, sideVars>>

Next ==
    \/ \E m \in Msgs : ProcessMessageStart(m)
    \/ \E m \in Msgs : ContentReturns(m)
    \/ \E m \in Msgs, o \in SinkOutcomes : InProgressReturns(m, o)
    \/ \E m \in Msgs, o \in WorkflowOutcomes : WorkflowReturns(m, o)
    \/ \E m \in Msgs, o \in SinkOutcomes : CommentReturns(m, o)
    \/ \E m \in Msgs, o \in SinkOutcomes : DoneReturns(m, o)
    \/ \E m \in Msgs, o \in {"ok", "raise"} : AiProcessedReturns(m, o)
    \/ \E m \in Msgs, o \in SinkOutcomes : RevertReturns(m, o)
    \/ \E m \in Msgs : StoreEventReturns(m)
    \/ \E m \in Msgs : Settle(m)

Spec == Init /\ [][Next]_vars

(***************************************************************************)
(* Properties of the consumer, checked under Spec                          *)
(***************************************************************************)
\* the pipelines that hold an admission slot
InFlight == {m \in Msgs : pipe[m].pc \in InGate}

\* C1: at every instant at most max_concurrent_tasks pipelines are inside the
\* admission gate, hence at most that many workflow runs execute at once,
\* however many messages were delivered; the free slots and the pipelines
\* inside always add up to max_concurrent_tasks.
C1_AdmissionBound ==
    /\ Cardinality(InFlight) <= MaxConcurrentTasks
    /\ Cardinality({m \in Msgs : pipe[m].pc = "workflow"}) <= MaxConcurrentTasks
    /\ sem + Cardinality(InFlight) = MaxConcurrentTasks

\* the gate is full of running workflows while a further assigned task waits
C1_GateFull ==
    /\ Cardinality({m \in Msgs : pipe[m].pc = "workflow"}) = MaxConcurrentTasks
    /\ \E m \in Msgs : pipe[m].pc = "waiting" /\ pipe[m].body.ai_employee = "Alice"

\* C2: a message is settled at most once, it is settled exactly when its
\* pipeline has reached its terminal outcome, and so never while its
\* workflow run (or any other step of the pipeline) is still under way.
C2_SettledOnceAtEnd ==
    \A m \in Msgs :
        /\ pipe[m].settled <= 1
        /\ pipe[m].settled = 1 <=> pipe[m].pc \in {"done", "escaped"}
        /\ pipe[m].pc = "workflow" => pipe[m].settled = 0

\* one message settled after a successful run, one after a decode error, one not yet settled
C2_SettledAndPending ==
    \E m1, m2, m3 \in Msgs :
        /\ pipe[m1].pc = "done" /\ pipe[m1].result = "success" /\ pipe[m1].settled = 1
        /\ pipe[m2].pc = "done" /\ ~pipe[m2].body.json /\ pipe[m2].settled = 1
        /\ pipe[m3].pc = "workflow" /\ pipe[m3].settled = 0

C7_NoEscapeSlotsBack ==
    /\ \A m \in Msgs : pipe[m].pc # "escaped"
    /\ InFlight = {} => sem = MaxConcurrentTasks
    /\ sem >= 0

\* a mapper failure, a precondition failure and a failed run have all ended,
\* nothing is in flight and the slots are back
C7_FailuresAbsorbed ==
    /\ InFlight = {}
    /\ sem = MaxConcurrentTasks
    /\ \E m \in Msgs : pipe[m].pc = "done" /\ pipe[m].body.json /\ pipe[m].settle = "reject"
    /\ \E m \in Msgs : pipe[m].pc = "done" /\ pipe[m].result \in {"failure", "raised"}

\* the four ways a decoded message fails validation, read off the task and the registry
NotProcessable(task) == ~(task.status \in {TO_DO, IN_PROGRESS} /\ has_ai_employee_assigned(task))
HandlerNotFound(task) == \A h \in Employees : Lower(h) # Lower(task.ai_employee)
HandlerIncapable(task) ==
    \E h \in Employees :
        /\ Lower(h) = Lower(task.ai_employee)
        /\ \A i \in 1..Len(Reactions(h)) : ~matches(Reactions(h)[i].event_check, task, h)
NoWorkflowResolves(task) ==
    \E h \in Employees :
        /\ Lower(h) = Lower(task.ai_employee)
        /\ \A i \in 1..Len(Reactions(h)) :
              matches(Reactions(h)[i].event_check, task, h)
                 => Reactions(h)[i].workflow_type \notin Workflows(h)
ValidationFails(body) ==
    /\ body.json
    /\ \/ NotProcessable(map_to_domain(body))
       \/ HandlerNotFound(map_to_domain(body))
       \/ HandlerIncapable(map_to_domain(body))
       \/ NoWorkflowResolves(map_to_domain(body))

\* C8: a message that fails validation (task not processable, handler not
\* found, handler incapable, no workflow resolves) never has a workflow run,
\* is settled once and is not re-queued.
C8_ValidationDrop ==
    \A m \in Msgs :
        ValidationFails(pipe[m].body) =>
            /\ pipe[m].pc \notin {"workflow", "comment", "toDone", "aiProcessed", "escaped"}
            /\ pipe[m].result \in {"none", "raised"}
            /\ pipe[m].settled <= 1
            /\ pipe[m].pc = "done" => pipe[m].settled = 1 /\ ~pipe[m].requeued

\* a task whose workflow is not registered and a task of an unknown handler, both dropped
C8_Dropped ==
    \E m1, m2 \in Msgs :
        /\ NoWorkflowResolves(map_to_domain(pipe[m1].body)) /\ pipe[m1].body.json
        /\ pipe[m1].pc = "done" /\ pipe[m1].result = "raised" /\ pipe[m1].settled = 1
        /\ HandlerNotFound(map_to_domain(pipe[m2].body)) /\ pipe[m2].body.json
        /\ has_ai_employee_assigned(map_to_domain(pipe[m2].body))
        /\ pipe[m2].pc = "done" /\ pipe[m2].settled = 1

\* C9: a message whose body is not JSON never gets past decoding: no task is
\* mapped, no handler resolved or invoked, it is rejected without re-queue,
\* process_message returns, and the step that handles it touches neither
\* the status sink, the handlers nor the event store.
C9_PoisonDropped ==
    /\ [](\A m \in Msgs : ~pipe[m].body.json =>
             /\ pipe[m].pc \in {"waiting", "settling", "done"}
             /\ pipe[m].task = NoTask /\ pipe[m].employee = "None"
             /\ pipe[m].result = "none" /\ pipe[m].ops = {}
             /\ ~pipe[m].requeued
             /\ pipe[m].pc = "done" => pipe[m].settled = 1)
    /\ [][\A m \in Msgs : (~pipe[m].body.json /\ pipe'[m] # pipe[m])
              => UNCHANGED <<sinkStatus, aiProcessed, emp, eventStore>>]_vars

\* a poison message has been dropped while another message is being worked on
C9_PoisonSettled ==
    \E m1, m2 \in Msgs :
        /\ ~pipe[m1].body.json /\ pipe[m1].pc = "done" /\ pipe[m1].settle = "reject"
        /\ pipe[m2].pc = "workflow"

\* the process_task calls of handler h that ran their workflow to an end
Completed(h) == {m \in Msgs : pipe[m].employee = h /\ pipe[m].result \in {"success", "failure"}}

\* C10: in every reachable state, also while runs of one handler overlap,
\* tasks_processed is the number of completed process_task calls and
\* success_count the number of those that succeeded.
C10_CountersExact ==
    \A h \in Employees :
        /\ emp[h].tasks_processed = Cardinality(Completed(h))
        /\ emp[h].success_count = Cardinality({m \in Completed(h) : pipe[m].result = "success"})
        /\ emp[h].success_count <= emp[h].tasks_processed

\* two runs of one handler overlap after an earlier one was counted
C10_Overlap ==
    \E m1, m2 \in Msgs :
        /\ m1 # m2
        /\ pipe[m1].pc = "workflow" /\ pipe[m2].pc = "workflow"
        /\ pipe[m1].employee = pipe[m2].employee
        /\ emp[pipe[m1].employee].tasks_processed >= 1

(***************************************************************************)
(* SpecStatus: TaskStatusService (domain/services.py:136-188) called with  *)
(* any task, one call at a time.  task.status is whatever the caller's     *)
(* task object holds: a TaskStatus member or a plain string.               *)
(***************************************************************************)
\* statuses a task object can carry: the enum members, their values as plain
\* strings, and a string that is no status value
StatusInputs ==
    {EnumStatus(v) : v \in TaskStatus} \cup {StrStatus(v) : v \in TaskStatus \cup {"Blocked"}}

\* TaskStatusService with its repository: no call under way, every task To Do
InitStatus ==
    /\ svc = [pc |-> "idle", op |-> "none", task_id |-> "t1", status |-> EnumStatus(TO_DO),
              ret |-> "none", sink_calls |-> 0, sink |-> [t \in TaskIds |-> TO_DO]]
    /\ wf = IdleWf
    /\ DomainOff
    /\ SideOff
    /\ ConsumerOff

\* a transition method runs up to its first await: it returns at once on a
\* guard ("true"/"false"), or awaits update_task_status(task_id, target)
StatusCall(op, t, status, guard) ==
    svc' = [svc EXCEPT !.op = op, !.task_id = t, !.status = status,
                       !.pc = IF guard = "call" THEN "awaiting" ELSE "idle",
                       !.ret = IF guard = "call" THEN "none" ELSE guard,
                       !.sink_calls = IF guard = "call" THEN 1 ELSE 0]

\* await status_service.transition_to_in_progress(task)
TransitionToInProgress(t, status) ==
    /\ svc.pc = "idle"
    /\ StatusCall("to_in_progress", t, status, transition_to_in_progress(status))
    /\ UNCHANGED <<consumerVars, wf, hnd, reg, sideVars>>

\* await status_service.transition_to_done(task)
TransitionToDone(t, status) ==
    /\ svc.pc = "idle"
    /\ StatusCall("to_done", t, status, transition_to_done(status))
    /\ UNCHANGED <<consumerVars, wf, hnd, reg, sideVars>>

\* await status_service.revert_to_todo(task): no guard, the repository is always called
RevertToTodo(t, status) ==
    /\ svc.pc = "idle"
    /\ StatusCall("revert", t, status, "call")
    /\ UNCHANGED <<consumerVars, wf, hnd, reg, sideVars>>

\* the status each method asks the repository to write
TargetStatus(op) ==
    IF op = "to_in_progress" THEN IN_PROGRESS ELSE IF op = "to_done" THEN DONE ELSE TO_DO

\* update_task_status returns o, and the method returns it to its caller
StatusSinkReturns(o) ==
    /\ svc.pc = "awaiting"
    /\ svc' = [svc EXCEPT !.pc = "idle", !.ret = o,
                          !.sink = IF o = "true" THEN [@ EXCEPT ![svc.task_id] = TargetStatus(svc.op)]
                                   ELSE @]
    /\ UNCHANGED <<consumerVars, wf, hnd, reg, sideVars>>

NextStatus ==
    \/ \E t \in TaskIds, status \in StatusInputs : TransitionToInProgress(t, status)
    \/ \E t \in TaskIds, status \in StatusInputs : TransitionToDone(t, status)
    \/ \E t \in TaskIds, status \in StatusInputs : RevertToTodo(t, status)
    \/ \E o \in SinkOutcomes : StatusSinkReturns(o)

SpecStatus == InitStatus /\ [][NextStatus]_vars

\* C3: transition_to_in_progress calls the sink only when the task status is
\* To Do (and then returns the sink's answer), returns true without a call
\* when it is In Progress, and returns false without a call otherwise;
\* transition_to_done likewise with In Progress and Done.
C3_TransitionGuards ==
    /\ svc.op = "to_in_progress" =>
          /\ svc.sink_calls = 1 <=> svc.status.value = TO_DO
          /\ (svc.pc = "idle" /\ svc.status.value = IN_PROGRESS) => svc.ret = "true"
          /\ (svc.pc = "idle" /\ svc.status.value \notin {TO_DO, IN_PROGRESS}) => svc.ret = "false"
    /\ svc.op = "to_done" =>
          /\ svc.sink_calls = 1 <=> svc.status.value = IN_PROGRESS
          /\ (svc.pc = "idle" /\ svc.status.value = DONE) => svc.ret = "true"
          /\ (svc.pc = "idle" /\ svc.status.value \notin {IN_PROGRESS, DONE}) => svc.ret = "false"
    /\ svc.op \in {"to_in_progress", "to_done"} => svc.sink_calls <= 1

\* a Done task was refused by transition_to_in_progress with the sink untouched,
\* after an earlier call had moved the other task
C3_Refused ==
    /\ svc.pc = "idle" /\ svc.op = "to_in_progress" /\ svc.task_id = "t1"
    /\ svc.status = EnumStatus(DONE) /\ svc.ret = "false" /\ svc.sink_calls = 0
    /\ svc.sink["t1"] = TO_DO /\ svc.sink["t2"] = DONE

(***************************************************************************)
(* SpecWF: EmployeeWorkflowGraph.execute (workflows/employee_workflow.py), *)
(* one run through one of the four graphs.  A generated text is kept as    *)
(* its length, its length after strip() and whether its lower-cased form   *)
(* holds the three section words; results is kept as its length and its    *)
(* last element, errors as its length.                                     *)
(***************************************************************************)
\* _validate_result: "len(result.strip()) < 50"
MinResultLength == 50
\* _needs_more_research: "len(result) < 500"
MinResearchLength == 500
\* _should_retry_action and _is_spec_complete: "retry_count < 2", "retry_count >= 2"
MaxRetries == 2
\* len(diagram_note) in _generate_diagrams
DiagramNoteLength == 98
\* graph.ainvoke is called without a config: the graph library ends a run
\* that has not reached END after its default number of steps by raising
RecursionLimit == 25

WorkflowTypes == {"default", "specification", "research", "documentation"}

Text(len, stripped, sections) == [len |-> len, stripped |-> stripped, sections |-> sections]
NoText == Text(0, 0, FALSE)

\* what self.llm.ainvoke can hand back as response.content
LlmTexts ==
    { Text(0, 0, FALSE),        \* the empty string
      Text(10, 10, FALSE),      \* short
      Text(60, 10, FALSE),      \* short once the trailing blanks are stripped
      Text(40, 40, TRUE),       \* short, yet it names the three sections
      Text(100, 100, FALSE),    \* long enough, a section is missing
      Text(100, 100, TRUE),     \* long enough and complete
      Text(600, 600, FALSE),
      Text(600, 600, TRUE) }

\* an outcome of `await self.llm.ainvoke(prompt)`: a text, or an exception
LlmOutcomes ==
    {[raised |-> FALSE, text |-> t] : t \in LlmTexts} \cup {[raised |-> TRUE, text |-> NoText]}

\* WorkflowState as execute builds it, with the bookkeeping of the run
InitialState(graph, persist, has_code_blocks) ==
    [graph |-> graph, persist |-> persist, has_code_blocks |-> has_code_blocks,
     node |-> "gather_context", last_node |-> "start",
     nresults |-> 0, last |-> NoText, errors |-> 0, retry_count |-> 0,
     has_code |-> FALSE, current_step |-> "start", final_response |-> NoText,
     steps |-> 0, llm_calls |-> 0, retry_loops |-> 0, incomplete_loops |-> 0,
     continue_loops |-> 0, all_incomplete |-> TRUE, raised |-> "none",
     result |-> [success |-> FALSE, nresults |-> 0, nerrors |-> 0]]

\* persist: whether a write a conditional-edge function makes to the state
\* it is handed reaches the state of the run.  The branch functions do
\* `state["retry_count"] += 1` and return only the edge name; whether the
\* graph library hands them the run's state or a copy is not decided by the
\* sources, so both are possible.
InitWF ==
    /\ \E graph \in WorkflowTypes, persist \in BOOLEAN, has_code_blocks \in BOOLEAN :
          wf = InitialState(graph, persist, has_code_blocks)
    /\ svc = IdleSvc
    /\ DomainOff
    /\ SideOff
    /\ ConsumerOff

\* _should_retry_action: <<edge, retry_count after the call>>
should_retry_action(st) ==
    IF st.errors > 0 /\ st.retry_count < MaxRetries THEN <<"retry", st.retry_count + 1>>
    ELSE IF st.errors > 0 THEN <<"error", st.retry_count>>
    ELSE <<"validate", st.retry_count>>

\* _is_spec_complete: it never writes retry_count
is_spec_complete(st) ==
    IF st.nresults = 0 THEN "incomplete"
    ELSE IF st.last.sections THEN "complete"
    ELSE IF st.retry_count >= MaxRetries THEN "error"
    ELSE "incomplete"

\* the mutant: a run with errors is routed to handle_error
needs_more_research_RoutesErrors(st) ==
    IF st.errors > 0 THEN <<"error", st.retry_count>>
    ELSE IF st.retry_count >= 1 THEN <<"validate", st.retry_count>>
    ELSE IF st.nresults > 0 /\ st.last.len < MinResearchLength
         THEN <<"continue", st.retry_count + 1>>
    ELSE <<"validate", st.retry_count>>

\* _needs_more_research: <<edge, retry_count after the call>>
needs_more_research(st) ==
    IF st.retry_count >= 1 THEN <<"validate", st.retry_count>>
    ELSE IF st.nresults > 0 /\ st.last.len < MinResearchLength
         THEN <<"continue", st.retry_count + 1>>
    ELSE <<"validate", st.retry_count>>

\* _needs_diagrams
needs_diagrams(st) == IF st.has_code THEN "generate" ELSE "validate"

\* the edge mappings of add_conditional_edges / add_edge, per graph
EdgeTarget(graph, node, edge) ==
    CASE node = "gather_context" ->
            IF graph = "research" THEN "analyze_research_scope"
            ELSE IF graph = "documentation" THEN "analyze_code"
            ELSE "execute_llm_action"
      [] node \in {"analyze_research_scope", "analyze_code"} -> "execute_llm_action"
      [] node = "execute_llm_action" ->
            CASE edge = "retry" -> "gather_context"
              [] edge = "continue" -> "analyze_research_scope"
              [] edge = "generate" -> "generate_diagrams"
              [] edge = "error" -> "handle_error"
              [] OTHER -> "validate_result"
      [] node = "generate_diagrams" -> "validate_result"
      [] node = "validate_result" ->
            CASE edge = "incomplete" -> "execute_llm_action"
              [] edge = "error" -> "handle_error"
              [] OTHER -> "store_memory"
      [] node = "store_memory" -> "finalize_result"
      [] OTHER -> "END"

\* one step of the compiled graph: node has run and left state st, edge is
\* what the conditional-edge function returned; the run goes to the target
\* node, or is ended by the library when the step limit is reached
Step(st, node, edge) ==
    LET target == EdgeTarget(st.graph, node, edge)
        st1 == [st EXCEPT !.last_node = node, !.steps = @ + 1,
                          !.retry_loops = IF edge = "retry" THEN @ + 1 ELSE @,
                          !.incomplete_loops = IF edge = "incomplete" THEN @ + 1 ELSE @,
                          !.continue_loops = IF edge = "continue" THEN @ + 1 ELSE @]
    IN IF target # "END" /\ st1.steps >= RecursionLimit
       THEN [st1 EXCEPT !.node = "raised", !.raised = "GraphRecursionError"]
       ELSE [st1 EXCEPT !.node = target]

\* what a node leaves in retry_count after a conditional-edge function asked for rc
AfterBranch(st, rc) == IF st.persist THEN rc ELSE st.retry_count

\* the mutant: a failure of get_memories ends the run
GatherContext_Halts(o) ==
    /\ wf.node = "gather_context"
    /\ wf' = IF o = "raise"
             THEN [wf EXCEPT !.errors = @ + 1, !.last_node = "gather_context",
                             !.steps = @ + 1, !.node = "raised",
                             !.raised = "Exception"]
             ELSE Step([wf EXCEPT !.current_step = "context_gathered"],
                       "gather_context", "next")
    /\ UNCHANGED <<consumerVars, svc, hnd, reg, sideVars>>

\* _gather_context: memory_repository.get_memories returns or raises (o)
GatherContext(o) ==
    /\ wf.node = "gather_context"
    /\ LET st == IF o = "raise" THEN [wf EXCEPT !.errors = @ + 1]
                 ELSE [wf EXCEPT !.current_step = "context_gathered"]
       IN wf' = Step(st, "gather_context", "next")
    /\ UNCHANGED <<consumerVars, svc, hnd, reg, sideVars>>

\* _analyze_research_scope (research graph): task.content is always a string
AnalyzeResearchScope ==
    /\ wf.node = "analyze_research_scope"
    /\ wf' = Step([wf EXCEPT !.current_step = "research_scope_analyzed"],
                  "analyze_research_scope", "next")
    /\ UNCHANGED <<consumerVars, svc, hnd, reg, sideVars>>

\* _analyze_code (documentation graph): context["has_code"] = len(code_blocks) > 0
AnalyzeCode ==
    /\ wf.node = "analyze_code"
    /\ wf' = Step([wf EXCEPT !.has_code = wf.has_code_blocks, !.current_step = "code_analyzed"],
                  "analyze_code", "next")
    /\ UNCHANGED <<consumerVars, svc, hnd, reg, sideVars>>

\* the conditional edge leaving execute_llm_action: <<edge, retry_count after it>>
AfterExecute(st) ==
    CASE st.graph = "specification" -> should_retry_action(st)
      [] st.graph = "research" -> needs_more_research(st)
      [] st.graph = "documentation" -> <<needs_diagrams(st), st.retry_count>>
      [] OTHER -> <<"next", st.retry_count>>

\* the mutant: a call of the LLM that succeeds clears the errors recorded so far
ExecuteLlmAction_ClearsErrors(o) ==
    /\ wf.node = "execute_llm_action"
    /\ LET st == IF o.raised
                 THEN [wf EXCEPT !.errors = @ + 1, !.current_step = "action_failed",
                                 !.llm_calls = @ + 1]
                 ELSE [wf EXCEPT !.nresults = @ + 1, !.last = o.text, !.errors = 0,
                                 !.current_step = "action_executed", !.llm_calls = @ + 1,
                                 !.all_incomplete = @ /\ ~o.text.sections]
           br == AfterExecute(st)
       IN wf' = Step([st EXCEPT !.retry_count = AfterBranch(st, br[2])],
                     "execute_llm_action", br[1])
    /\ UNCHANGED <<consumerVars, svc, hnd, reg, sideVars>>

\* _execute_llm_action: self.llm.ainvoke returns a text or raises (o), then
\* the conditional edge of the graph is evaluated
ExecuteLlmAction(o) ==
    /\ wf.node = "execute_llm_action"
    /\ LET st == IF o.raised
                 THEN [wf EXCEPT !.errors = @ + 1, !.current_step = "action_failed",
                                 !.llm_calls = @ + 1]
                 ELSE [wf EXCEPT !.nresults = @ + 1, !.last = o.text,
                                 !.current_step = "action_executed", !.llm_calls = @ + 1,
                                 !.all_incomplete = @ /\ ~o.text.sections]
           br == AfterExecute(st)
       IN wf' = Step([st EXCEPT !.retry_count = AfterBranch(st, br[2])],
                     "execute_llm_action", br[1])
    /\ UNCHANGED <<consumerVars, svc, hnd, reg, sideVars>>

\* _generate_diagrams (documentation graph): the note is appended to the last result
GenerateDiagrams ==
    /\ wf.node = "generate_diagrams"
    /\ LET st == IF wf.nresults > 0
                 THEN [wf EXCEPT !.last = Text(@.len + DiagramNoteLength,
                                               @.len + DiagramNoteLength, @.sections)]
                 ELSE wf
       IN wf' = Step([st EXCEPT !.current_step = "diagrams_generated"], "generate_diagrams", "next")
    /\ UNCHANGED <<consumerVars, svc, hnd, reg, sideVars>>

\* _validate_result, then (specification graph) _is_spec_complete
ValidateResult ==
    /\ wf.node = "validate_result"
    /\ LET st == IF wf.nresults = 0 THEN [wf EXCEPT !.errors = @ + 1]
                 ELSE IF wf.last.stripped < MinResultLength
                      THEN [wf EXCEPT !.errors = @ + 1, !.current_step = "result_validated"]
                 ELSE [wf EXCEPT !.current_step = "result_validated"]
           edge == IF st.graph = "specification" THEN is_spec_complete(st) ELSE "next"
       IN wf' = Step(st, "validate_result", edge)
    /\ UNCHANGED <<consumerVars, svc, hnd, reg, sideVars>>

\* _store_memory: with a result, memory_repository.store_memory returns or
\* raises (o); without one nothing is stored
StoreMemory(o) ==
    /\ wf.node = "store_memory"
    /\ wf.nresults = 0 => o = "ok"
    /\ LET st == IF o = "raise" THEN [wf EXCEPT !.errors = @ + 1] ELSE wf
       IN wf' = Step([st EXCEPT !.current_step = "memory_stored"], "store_memory", "next")
    /\ UNCHANGED <<consumerVars, svc, hnd, reg, sideVars>>

\* _finalize_result
FinalizeResult ==
    /\ wf.node = "finalize_result"
    /\ LET st == IF wf.nresults > 0 THEN [wf EXCEPT !.final_response = wf.last] ELSE wf
       IN wf' = Step([st EXCEPT !.current_step = "finalized"], "finalize_result", "next")
    /\ UNCHANGED <<consumerVars, svc, hnd, reg, sideVars>>

\* _handle_error
HandleError ==
    /\ wf.node = "handle_error"
    /\ wf' = Step([wf EXCEPT !.current_step = "error_handled"], "handle_error", "next")
    /\ UNCHANGED <<consumerVars, svc, hnd, reg, sideVars>>

\* the mutant: success looks at the final response only
ExecuteReturns_IgnoreErrors ==
    /\ wf.node \in {"END", "raised"}
    /\ LET final_response ==
               IF wf.final_response.len = 0 /\ wf.nresults > 0 THEN wf.last
               ELSE wf.final_response
       IN wf' = [wf EXCEPT !.node = "returned",
                    !.result = IF wf.node = "raised"
                               THEN [success |-> FALSE, nresults |-> 0, nerrors |-> 1]
                               ELSE [success |-> final_response.len > 0,
                                     nresults |-> IF final_response.len > 0 THEN 1 ELSE 0,
                                     nerrors |-> wf.errors]]
    /\ UNCHANGED <<consumerVars, svc, hnd, reg, sideVars>>

\* the mutant: the except clause reports what the run had gathered
ExecuteReturns_ExceptKeepsState ==
    /\ wf.node \in {"END", "raised"}
    /\ LET final_response ==
               IF wf.final_response.len = 0 /\ wf.nresults > 0 THEN wf.last
               ELSE wf.final_response
       IN wf' = [wf EXCEPT !.node = "returned",
                    !.result = IF wf.node = "raised"
                               THEN [success |-> FALSE,
                                     nresults |-> IF final_response.len > 0 THEN 1 ELSE 0,
                                     nerrors |-> wf.errors + 1]
                               ELSE [success |-> wf.errors = 0 /\ final_response.len > 0,
                                     nresults |-> IF final_response.len > 0 THEN 1 ELSE 0,
                                     nerrors |-> wf.errors]]
    /\ UNCHANGED <<consumerVars, svc, hnd, reg, sideVars>>

\* execute after `await self.graph.ainvoke`: the TaskProcessingResult built
\* from the final state, or by the except clause when ainvoke raised
ExecuteReturns ==
    /\ wf.node \in {"END", "raised"}
    /\ LET final_response ==
               IF wf.final_response.len = 0 /\ wf.nresults > 0 THEN wf.last
               ELSE wf.final_response
       IN wf' = [wf EXCEPT !.node = "returned",
                    !.result = IF wf.node = "raised"
                               THEN [success |-> FALSE, nresults |-> 0, nerrors |-> 1]
                               ELSE [success |-> wf.errors = 0 /\ final_response.len > 0,
                                     nresults |-> IF final_response.len > 0 THEN 1 ELSE 0,
                                     nerrors |-> wf.errors]]
    /\ UNCHANGED <<consumerVars, svc, hnd, reg, sideVars>>

NextWF ==
    \/ \E o \in {"ok", "raise"} : GatherContext(o)
    \/ AnalyzeResearchScope
    \/ AnalyzeCode
    \/ \E o \in LlmOutcomes : ExecuteLlmAction(o)
    \/ GenerateDiagrams
    \/ ValidateResult
    \/ \E o \in {"ok", "raise"} : StoreMemory(o)
    \/ FinalizeResult
    \/ HandleError
    \/ ExecuteReturns

SpecWF == InitWF /\ [][NextWF]_vars

\* the steps at which a graph ends a run on its own
TerminalSteps == {"finalize_result", "handle_error"}

\* C4: in the specification graph, while every generated text lacks a
\* required section, the run loops back at most 2 times from validate_result
\* and at most 2 times to gather_context, and it returns from handle_error
\* with success = false.  Stated for the runs in which the writes of the
\* branch functions to retry_count do reach the run state.
C4_SpecRetriesBounded ==
    (wf.persist /\ wf.graph = "specification" /\ wf.all_incomplete /\ wf.llm_calls >= 1) =>
        /\ wf.incomplete_loops <= MaxRetries
        /\ wf.retry_loops <= MaxRetries
        /\ wf.node = "returned" => (wf.last_node = "handle_error" /\ ~wf.result.success)

\* C5: a run never goes round a cycle until the library cuts it off: no run
\* is ended by the step limit, and a run that has returned ended at
\* finalize_result or handle_error.  Stated for the runs in which the writes
\* of the branch functions to retry_count do reach the run state.
C5_RunsReachTerminalStep ==
    wf.persist =>
        /\ wf.raised # "GraphRecursionError"
        /\ wf.node = "returned" => wf.last_node \in TerminalSteps

\* C19: execute returns success = true exactly when the run raised nothing,
\* recorded no error and left a non-empty final response (the response
\* finalize_result stored, or else the last result); so a run that ended at
\* handle_error, and a run in which any step recorded an error, returns
\* success = false.
C19_SuccessIffCleanAndResponse ==
    wf.node = "returned" =>
        /\ wf.result.success <=>
              /\ wf.raised = "none"
              /\ wf.errors = 0
              /\ wf.final_response.len > 0 \/ (wf.nresults > 0 /\ wf.last.len > 0)
        /\ wf.last_node = "handle_error" => ~wf.result.success
        /\ wf.errors > 0 => ~wf.result.success
        /\ wf.result.success => wf.result.nresults = 1 /\ wf.result.nerrors = 0

\* a run that went through finalize_result with a full response and one
\* recorded error has returned success = false
C19_ErrorSpoilsResponse ==
    /\ wf.node = "returned"
    /\ wf.last_node = "finalize_result"
    /\ wf.final_response.stripped >= MinResultLength
    /\ wf.errors = 1
    /\ ~wf.result.success

\* C20: when the graph traversal raises, execute returns instead of
\* raising: a result with success = false, no results, and one error, the
\* exception's text, whatever results and errors the run had gathered.
C20_ExceptionsBecomeResults ==
    (wf.node = "returned" /\ wf.raised # "none") =>
        wf.result = [success |-> FALSE, nresults |-> 0, nerrors |-> 1]

\* a run that had gathered results was ended by an exception of the traversal
C20_RaisedAfterResults ==
    /\ wf.node = "returned"
    /\ wf.raised = "GraphRecursionError"
    /\ wf.nresults >= 2
    /\ wf.last.len > 0
    /\ wf.result.nresults = 0

(***************************************************************************)
(* SpecEmp: one ArtificialEmployee (domain/artificial_employee.py:40-243), *)
(* named Carol, driven by one caller at a time: the caller builds the      *)
(* reactions and workflows, switches the employee on and off, processes    *)
(* tasks (awaiting each process_task before its next call) and drains the  *)
(* domain events.  hnd holds the object's fields, the position of the      *)
(* process_task coroutine and what the last call raised or returned.       *)
(***************************************************************************)
\* add_reaction calls the model makes on one employee
MaxReactions == 2
\* process_task calls the model lets run to their end
MaxProcessed == 2
\* events the model lets pile up in _domain_events before they are drained
MaxEvents == 2

\* the arguments add_reaction is called with
ReactionChecks == {AssignmentCheck, KeywordCheck({"spec"})}
ReactionWorkflowTypes == {"default", "specification"}
ReactionPriorities == {1, 10}

\* the tasks handed to the employee: assigned to it (in either spelling), to
\* another employee, or to nobody; with or without the word "spec"
HandlerTasks ==
    { [notion_id |-> "t1", status |-> TO_DO, ai_employee |-> a, words |-> w, length |-> 30] :
        a \in {"Carol", "carol", "Bob", "None"}, w \in {{}, {"spec"}} }

\* EmployeeReaction(event_check, workflow_type, priority); nth is the ordinal
\* of the add_reaction call that made it
EmployeeReaction(event_check, workflow_type, priority, nth) ==
    [event_check |-> event_check, workflow_type |-> workflow_type,
     priority |-> priority, nth |-> nth]

\* the result process_task hands back
TaskProcessingResult(success, results, errors) ==
    [success |-> success, results |-> results, errors |-> errors]
NoResult == TaskProcessingResult(FALSE, 0, <<>>)

\* ArtificialEmployee.__init__, with the bookkeeping of the calls
InitHandler ==
    [is_active |-> TRUE, reactions |-> <<>>, workflows |-> {},
     domain_events |-> <<>>, tasks_processed |-> 0, success_count |-> 0,
     last_activity |-> 0,
     pc |-> "idle", task |-> NoTask, workflow |-> "None",
     op |-> "init", raised |-> "none", outcome |-> "none",
     result |-> NoResult, events_out |-> <<>>, added |-> 0]

InitEmp ==
    /\ hnd = InitHandler
    /\ reg = IdleReg
    /\ svc = IdleSvc
    /\ wf = IdleWf
    /\ SideOff
    /\ ConsumerOff

\* a call begins: what the call before it raised or returned is gone
Call(e, op) ==
    [e EXCEPT !.op = op, !.raised = "none", !.outcome = "none",
              !.result = NoResult, !.events_out = <<>>]

\* the mutant: activate without its test of the flag
activate_Unguarded(e) ==
    [e EXCEPT !.is_active = TRUE,
              !.domain_events = Append(@, Event("EmployeeActivated", Handler, 0))]

\* ArtificialEmployee.activate
activate(e) ==
    IF e.is_active THEN [e EXCEPT !.raised = "ValueError"]
    ELSE [e EXCEPT !.is_active = TRUE,
                   !.domain_events = Append(@, Event("EmployeeActivated", Handler, 0))]

\* ArtificialEmployee.deactivate
deactivate(e) ==
    IF ~e.is_active THEN [e EXCEPT !.raised = "ValueError"]
    ELSE [e EXCEPT !.is_active = FALSE,
                   !.domain_events = Append(@, Event("EmployeeDeactivated", Handler, 0))]

\* ArtificialEmployee.get_domain_events: the copy is returned, the list cleared
get_domain_events(e) == [e EXCEPT !.events_out = e.domain_events, !.domain_events = <<>>]

RECURSIVE sort_reverse_Unstable(_)
\* the mutant: a sort that puts an element before the elements of its priority
sort_reverse_Unstable(s) ==
    IF s = <<>> THEN <<>>
    ELSE LET sorted == sort_reverse_Unstable(SubSeq(s, 1, Len(s) - 1))
             r == s[Len(s)]
             k == Cardinality({i \in 1..Len(sorted) : sorted[i].priority > r.priority})
         IN SubSeq(sorted, 1, k) \o <<r>> \o SubSeq(sorted, k + 1, Len(sorted))

RECURSIVE sort_reverse(_)
\* list.sort(key=lambda r: r.priority, reverse=True): descending by priority,
\* stable, so an element stays behind the elements of its priority that
\* stood before it
sort_reverse(s) ==
    IF s = <<>> THEN <<>>
    ELSE LET sorted == sort_reverse(SubSeq(s, 1, Len(s) - 1))
             r == s[Len(s)]
             k == Cardinality({i \in 1..Len(sorted) : sorted[i].priority >= r.priority})
         IN SubSeq(sorted, 1, k) \o <<r>> \o SubSeq(sorted, k + 1, Len(sorted))

\* ArtificialEmployee.add_reaction: append, then sort
add_reaction(e, event_check, workflow_type, priority) ==
    [e EXCEPT !.reactions = sort_reverse(Append(@, EmployeeReaction(event_check, workflow_type,
                                                                   priority, e.added + 1))),
              !.added = @ + 1]

\* ArtificialEmployee.add_workflow
add_workflow(e, workflow_type) == [e EXCEPT !.workflows = @ \cup {workflow_type}]

Activate ==
    /\ hnd.pc = "idle"
    /\ hnd.is_active \/ Len(hnd.domain_events) < MaxEvents
    /\ hnd' = activate(Call(hnd, "activate"))
    /\ UNCHANGED <<consumerVars, svc, wf, reg, sideVars>>

Deactivate ==
    /\ hnd.pc = "idle"
    /\ ~hnd.is_active \/ Len(hnd.domain_events) < MaxEvents
    /\ hnd' = deactivate(Call(hnd, "deactivate"))
    /\ UNCHANGED <<consumerVars, svc, wf, reg, sideVars>>

GetDomainEvents ==
    /\ hnd.pc = "idle"
    /\ hnd' = get_domain_events(Call(hnd, "get_domain_events"))
    /\ UNCHANGED <<consumerVars, svc, wf, reg, sideVars>>

AddReaction(event_check, workflow_type, priority) ==
    /\ hnd.pc = "idle"
    /\ hnd.added < MaxReactions
    /\ hnd' = add_reaction(Call(hnd, "add_reaction"), event_check, workflow_type, priority)
    /\ UNCHANGED <<consumerVars, svc, wf, reg, sideVars>>

AddWorkflow(workflow_type) ==
    /\ hnd.pc = "idle"
    /\ hnd' = add_workflow(Call(hnd, "add_workflow"), workflow_type)
    /\ UNCHANGED <<consumerVars, svc, wf, reg, sideVars>>

\* process_task up to `await workflow.execute(task, self)`: a failed
\* precondition raises ValueError, otherwise the workflow is under way
ProcessTask(task) ==
    /\ hnd.pc = "idle"
    /\ hnd.tasks_processed < MaxProcessed
    /\ Len(hnd.domain_events) < MaxEvents
    /\ LET e == [Call(hnd, "process_task") EXCEPT !.task = task] IN
         hnd' = IF process_task_pre(Handler, hnd.is_active, task) = "ok"
                THEN [e EXCEPT !.pc = "executing",
                               !.workflow = get_applicable_workflow(Handler, task)]
                ELSE [e EXCEPT !.raised = "ValueError", !.workflow = "None"]
    /\ UNCHANGED <<consumerVars, svc, wf, reg, sideVars>>

\* what process_task returns: the workflow's result, or the failed result
\* its except clause builds from the exception
process_task_result(o) ==
    IF o = "raise" THEN TaskProcessingResult(FALSE, 0, <<"str(e)">>)
    ELSE IF o = "success" THEN TaskProcessingResult(TRUE, 1, <<>>)
    ELSE TaskProcessingResult(FALSE, 0, <<"workflow error">>)

\* workflow.execute returns or raises (o) and process_task runs to its return
ProcessTaskReturns(o) ==
    /\ hnd.pc = "executing"
    /\ hnd' = [process_task_complete(hnd, o, Handler, 0) EXCEPT
                  !.pc = "idle", !.outcome = o, !.result = process_task_result(o)]
    /\ UNCHANGED <<consumerVars, svc, wf, reg, sideVars>>

NextEmp ==
    \/ Activate
    \/ Deactivate
    \/ GetDomainEvents
    \/ \E c \in ReactionChecks, w \in ReactionWorkflowTypes, p \in ReactionPriorities :
          AddReaction(c, w, p)
    \/ \E w \in ReactionWorkflowTypes : AddWorkflow(w)
    \/ \E task \in HandlerTasks : ProcessTask(task)
    \/ \E o \in WorkflowOutcomes : ProcessTaskReturns(o)

SpecEmp == InitEmp /\ [][NextEmp]_vars

(***************************************************************************)
(* Properties of the employee, checked under SpecEmp                       *)
(***************************************************************************)
\* the task names this employee, in any letter case
AssignedToHandler(task) == task.ai_employee \in {"Carol", "carol"}
\* the reactions whose check matches the task, and those of them whose workflow is registered
MatchingReactions(task) ==
    {i \in 1..Len(hnd.reactions) : matches(hnd.reactions[i].event_check, task, Handler)}
RegisteredMatches(task) ==
    {i \in MatchingReactions(task) : hnd.reactions[i].workflow_type \in hnd.workflows}
\* the last event of a queue
LastEvent(events) == events[Len(events)]

\* C11: a process_task call that passed the preconditions appends exactly
\* one event to the queue when it ends: TaskProcessed when the workflow
\* succeeded, TaskProcessingFailed when the workflow raised, and then the
\* call raises nothing and returns a failed result whose only error is the
\* exception's text.
C11_OneEventPerCall ==
    [][(hnd.pc = "executing" /\ hnd'.pc = "idle") =>
          /\ Len(hnd'.domain_events) = Len(hnd.domain_events) + 1
          /\ SubSeq(hnd'.domain_events, 1, Len(hnd.domain_events)) = hnd.domain_events
          /\ hnd'.outcome = "success" =>
                /\ LastEvent(hnd'.domain_events).kind = "TaskProcessed"
                /\ hnd'.result.success
          /\ hnd'.outcome = "raise" =>
                /\ LastEvent(hnd'.domain_events).kind = "TaskProcessingFailed"
                /\ hnd'.raised = "none"
                /\ hnd'.result = TaskProcessingResult(FALSE, 0, <<"str(e)">>)]_vars

\* a successful call, then a call whose workflow raised: one event each
C11_ProcessedThenFailed ==
    /\ hnd.pc = "idle" /\ hnd.outcome = "raise"
    /\ hnd.tasks_processed = 2
    /\ Len(hnd.domain_events) = 2
    /\ hnd.domain_events[1].kind = "TaskProcessed"
    /\ hnd.domain_events[2].kind = "TaskProcessingFailed"

\* C12: process_task raises and starts no workflow when the task is not
\* assigned to the employee, when the employee is inactive or none of its
\* reactions matches, or when no matching reaction has a registered
\* workflow; the raising call leaves the counters, last_activity and the
\* event queue as they were.
C12_PreconditionsRaise ==
    /\ [](( /\ hnd.op = "process_task" /\ hnd.outcome = "none"
            /\ \/ ~AssignedToHandler(hnd.task)
               \/ ~hnd.is_active
               \/ MatchingReactions(hnd.task) = {}
               \/ RegisteredMatches(hnd.task) = {})
          => (hnd.raised = "ValueError" /\ hnd.pc = "idle" /\ hnd.workflow = "None"))
    /\ [][(hnd'.op = "process_task" /\ hnd'.raised = "ValueError") =>
             /\ hnd'.pc = "idle"
             /\ hnd'.tasks_processed = hnd.tasks_processed
             /\ hnd'.success_count = hnd.success_count
             /\ hnd'.last_activity = hnd.last_activity
             /\ hnd'.domain_events = hnd.domain_events]_vars

\* an active employee with work behind it is handed a task assigned to it
\* that a reaction matches, but no workflow is registered for that reaction
C12_NoWorkflowRaised ==
    /\ hnd.op = "process_task" /\ hnd.raised = "ValueError"
    /\ hnd.is_active /\ AssignedToHandler(hnd.task)
    /\ MatchingReactions(hnd.task) # {} /\ RegisteredMatches(hnd.task) = {}
    /\ hnd.tasks_processed >= 1 /\ hnd.domain_events # <<>>

\* C13: activate on an active employee and deactivate on an inactive one
\* raise and change neither the flag nor the queue; otherwise the flag
\* flips and one event of the matching kind joins the queue;
\* get_domain_events returns the queue in order and leaves it empty.
C13_ActivationAndDrain ==
    [][/\ hnd'.op = "activate" =>
            IF hnd.is_active
            THEN /\ hnd'.raised = "ValueError"
                 /\ hnd'.is_active
                 /\ hnd'.domain_events = hnd.domain_events
            ELSE /\ hnd'.raised = "none"
                 /\ hnd'.is_active
                 /\ hnd'.domain_events =
                       Append(hnd.domain_events, Event("EmployeeActivated", Handler, 0))
       /\ hnd'.op = "deactivate" =>
            IF ~hnd.is_active
            THEN /\ hnd'.raised = "ValueError"
                 /\ ~hnd'.is_active
                 /\ hnd'.domain_events = hnd.domain_events
            ELSE /\ hnd'.raised = "none"
                 /\ ~hnd'.is_active
                 /\ hnd'.domain_events =
                       Append(hnd.domain_events, Event("EmployeeDeactivated", Handler, 0))
       /\ hnd'.op = "get_domain_events" =>
            /\ hnd'.events_out = hnd.domain_events
            /\ hnd'.domain_events = <<>>
            /\ hnd'.raised = "none"]_vars

\* the employee was switched off and on again and the two events were drained in that order
C13_Drained ==
    /\ hnd.op = "get_domain_events"
    /\ Len(hnd.events_out) = 2
    /\ hnd.events_out[1].kind = "EmployeeDeactivated"
    /\ hnd.events_out[2].kind = "EmployeeActivated"
    /\ hnd.domain_events = <<>>

\* C14: after any add_reaction calls the list holds every reaction added,
\* in non-increasing priority, and reactions of one priority stand in the
\* order they were added.
C14_ReactionsSorted ==
    hnd.pc # "off" =>
        /\ Len(hnd.reactions) = hnd.added
        /\ {hnd.reactions[i].nth : i \in 1..Len(hnd.reactions)} = 1..hnd.added
        /\ \A i, j \in 1..Len(hnd.reactions) :
              i < j => /\ hnd.reactions[i].priority >= hnd.reactions[j].priority
                       /\ hnd.reactions[i].priority = hnd.reactions[j].priority
                             => hnd.reactions[i].nth < hnd.reactions[j].nth

\* the reaction of priority 10 was added after the one of priority 1 and stands first
C14_HighAddedLast ==
    /\ hnd.pc # "off"
    /\ Len(hnd.reactions) = 2
    /\ hnd.reactions[1].priority = 10 /\ hnd.reactions[1].nth = 2
    /\ hnd.reactions[2].priority = 1 /\ hnd.reactions[2].nth = 1

\* C15: get_applicable_workflow gives the workflow of the first reaction, in
\* list order, that matches the task and has a registered workflow, passing
\* over matching reactions whose workflow is not registered; it gives none
\* exactly when no matching reaction has a registered workflow.  The
\* workflow process_task runs is that one.
C15_FirstRegisteredMatch ==
    hnd.pc # "off" =>
        /\ \A task \in HandlerTasks :
              IF RegisteredMatches(task) = {}
              THEN get_applicable_workflow(Handler, task) = "None"
              ELSE \E i \in RegisteredMatches(task) :
                      /\ \A j \in RegisteredMatches(task) : i <= j
                      /\ get_applicable_workflow(Handler, task) = hnd.reactions[i].workflow_type
        /\ hnd.pc = "executing" =>
              /\ hnd.workflow = get_applicable_workflow(Handler, hnd.task)
              /\ hnd.workflow \in hnd.workflows

\* the first matching reaction has no registered workflow and the run uses the second one's
C15_SkippedUnregistered ==
    /\ hnd.pc = "executing"
    /\ Len(hnd.reactions) = 2
    /\ MatchingReactions(hnd.task) = {1, 2}
    /\ hnd.reactions[1].workflow_type \notin hnd.workflows
    /\ hnd.workflow = hnd.reactions[2].workflow_type

\* C16: can_handle_task_type is false for an inactive employee, false for a
\* task not assigned to the employee, and otherwise true exactly when some
\* reaction matches; without reactions no task can be handled.  A run is
\* started only for a task the employee can handle.
C16_CanHandle ==
    hnd.pc # "off" =>
        /\ \A task \in HandlerTasks :
              /\ ~hnd.is_active => ~can_handle_task_type(Handler, hnd.is_active, task)
              /\ ~AssignedToHandler(task) => ~can_handle_task_type(Handler, hnd.is_active, task)
              /\ (hnd.is_active /\ AssignedToHandler(task)) =>
                    (can_handle_task_type(Handler, hnd.is_active, task)
                        <=> MatchingReactions(task) # {})
              /\ hnd.reactions = <<>> => ~can_handle_task_type(Handler, hnd.is_active, task)
        /\ hnd.pc = "executing" =>
              (hnd.is_active /\ AssignedToHandler(hnd.task) /\ MatchingReactions(hnd.task) # {})

\* an inactive employee refused a task assigned to it that one of its reactions matches
C16_InactiveRefused ==
    /\ hnd.op = "process_task" /\ hnd.raised = "ValueError"
    /\ ~hnd.is_active
    /\ AssignedToHandler(hnd.task)
    /\ MatchingReactions(hnd.task) # {}

(***************************************************************************)
(* Spec (the consumer): validate_assignment as process_message calls it    *)
(***************************************************************************)
\* C17: validate_assignment returns to its caller for every task, never
\* raising on the way: a pipeline gets past it exactly when the task can be
\* processed, its employee is found and that employee can handle it, and
\* every other decoded task makes it return False, so that process_message
\* leaves by its plain `return`.
C17_ValidateReturnsBoolean ==
    \A m \in Msgs :
        (pipe[m].pc # "waiting" /\ pipe[m].task # NoTask) =>
            /\ pipe[m].exc # "AttributeError"
            /\ (HandlerIncapable(pipe[m].task) /\ ~NotProcessable(pipe[m].task))
                  => pipe[m].settle \in {"none", "ack"}

(***************************************************************************)
(* SpecReg: one EmployeeRegistry (domain/artificial_employee.py:252-299).  *)
(* reg holds its two dicts, _employees keyed by employee_id and            *)
(* _employees_by_name keyed by name.lower(), and the last call made on it. *)
(* A dict is a function from its keys; an employee is known by its id and  *)
(* its name.                                                               *)
(***************************************************************************)
EmployeeIds == {"e1", "e2", "e3"}
EmployeeNames == {"Alice", "alice", "Bob", "Zed"}
\* the ArtificialEmployee objects handed to register_employee
EmployeeObjects == [employee_id : EmployeeIds, name : EmployeeNames]
NoEmployee == [employee_id |-> "None", name |-> "None"]

\* d[k] = v and del d[k] on a dict
DictSet(d, k, v) == [x \in (DOMAIN d) \cup {k} |-> IF x = k THEN v ELSE d[x]]
DictDel(d, k) == [x \in (DOMAIN d) \ {k} |-> d[x]]

\* EmployeeRegistry.__init__, with the bookkeeping of the calls
InitRegistry ==
    [pc |-> "on", employees |-> <<>>, employees_by_name |-> <<>>,
     op |-> "init", arg |-> NoEmployee, raised |-> "none", ret |-> "None"]

InitReg ==
    /\ reg = InitRegistry
    /\ hnd = IdleHnd
    /\ svc = IdleSvc
    /\ wf = IdleWf
    /\ SideOff
    /\ ConsumerOff

\* the mutant: the name is looked up as it is spelled, and stored lower-cased
register_employee_CaseSensitive(r, employee) ==
    IF employee.employee_id \in DOMAIN r.employees
    THEN [r EXCEPT !.raised = "ValueError"]
    ELSE IF employee.name \in DOMAIN r.employees_by_name
    THEN [r EXCEPT !.raised = "ValueError"]
    ELSE [r EXCEPT !.employees = DictSet(@, employee.employee_id, employee),
                   !.employees_by_name = DictSet(@, Lower(employee.name), employee)]

\* EmployeeRegistry.register_employee
register_employee(r, employee) ==
    IF employee.employee_id \in DOMAIN r.employees
    THEN [r EXCEPT !.raised = "ValueError"]
    ELSE IF Lower(employee.name) \in DOMAIN r.employees_by_name
    THEN [r EXCEPT !.raised = "ValueError"]
    ELSE [r EXCEPT !.employees = DictSet(@, employee.employee_id, employee),
                   !.employees_by_name = DictSet(@, Lower(employee.name), employee)]

\* the mutant: remove_employee forgets the dict keyed by name
remove_employee_IdOnly(r, employee_id) ==
    IF employee_id \notin DOMAIN r.employees THEN [r EXCEPT !.ret = "False"]
    ELSE [r EXCEPT !.employees = DictDel(@, employee_id), !.ret = "True"]

\* EmployeeRegistry.remove_employee: `del` of a missing key raises KeyError,
\* after the first dict has already lost its entry
remove_employee(r, employee_id) ==
    IF employee_id \notin DOMAIN r.employees THEN [r EXCEPT !.ret = "False"]
    ELSE LET employee == r.employees[employee_id]
             r1 == [r EXCEPT !.employees = DictDel(@, employee_id)]
         IN IF Lower(employee.name) \notin DOMAIN r.employees_by_name
            THEN [r1 EXCEPT !.raised = "KeyError"]
            ELSE [r1 EXCEPT !.employees_by_name = DictDel(@, Lower(employee.name)),
                            !.ret = "True"]

RegisterEmployee(employee) ==
    /\ reg.pc # "off"
    /\ reg' = register_employee([reg EXCEPT !.op = "register_employee", !.arg = employee,
                                            !.raised = "none", !.ret = "None"], employee)
    /\ UNCHANGED <<consumerVars, svc, wf, hnd, sideVars>>

RemoveEmployee(employee_id) ==
    /\ reg.pc # "off"
    /\ reg' = remove_employee([reg EXCEPT !.op = "remove_employee",
                                          !.arg = [employee_id |-> employee_id, name |-> "None"],
                                          !.raised = "none", !.ret = "None"], employee_id)
    /\ UNCHANGED <<consumerVars, svc, wf, hnd, sideVars>>

NextReg ==
    \/ \E employee \in EmployeeObjects : RegisterEmployee(employee)
    \/ \E employee_id \in EmployeeIds : RemoveEmployee(employee_id)

SpecReg == InitReg /\ [][NextReg]_vars

\* the employees a registry holds
Registered(r) == {r.employees[k] : k \in DOMAIN r.employees}
\* an employee that has the id or, letter case aside, the name of a registered one
Collides(r, employee) ==
    \E e \in Registered(r) :
        e.employee_id = employee.employee_id \/ Lower(e.name) = Lower(employee.name)

\* C18: after any register and remove calls no two registered employees
\* share an id or, letter case aside, a name, and the two dicts hold the
\* same employees; a register call that collides with a registered
\* employee on the id or on the lower-cased name raises and leaves both
\* dicts as they were.
C18_RegistryUnique ==
    /\ [](reg.pc # "off" =>
            /\ \A k \in DOMAIN reg.employees : reg.employees[k].employee_id = k
            /\ \A e1, e2 \in Registered(reg) :
                  (e1.employee_id = e2.employee_id \/ Lower(e1.name) = Lower(e2.name)) => e1 = e2
            /\ {reg.employees_by_name[k] : k \in DOMAIN reg.employees_by_name} = Registered(reg)
            /\ \A k \in DOMAIN reg.employees_by_name : Lower(reg.employees_by_name[k].name) = k
            /\ reg.raised # "KeyError")
    /\ [][(reg'.op = "register_employee" /\ Collides(reg, reg'.arg)) =>
             /\ reg'.raised = "ValueError"
             /\ reg'.employees = reg.employees
             /\ reg'.employees_by_name = reg.employees_by_name]_vars

\* with two employees registered, a third id under the name "alice" was
\* refused because "Alice" is registered
C18_NameCollisionRefused ==
    /\ reg.pc # "off"
    /\ reg.op = "register_employee" /\ reg.raised = "ValueError"
    /\ reg.arg.name = "alice"
    /\ reg.arg.employee_id \notin DOMAIN reg.employees
    /\ Cardinality(Registered(reg)) = 2
    /\ \E e \in Registered(reg) : e.name = "Alice"

InitLife == [pc |-> "consuming", running |-> TRUE]

\* the deliveries of SpecStop: task t1 as published while To Do and while In Progress
StopBodies == {2, 3}

InitStop ==
    /\ \E f \in [Msgs -> StopBodies] :
          /\ \A m \in Msgs : m + 1 \in Msgs => f[m] <= f[m + 1]
          /\ pipe = [m \in Msgs |-> InitPipe(Bodies[f[m]])]
    /\ sem = MaxConcurrentTasks
    /\ sinkStatus = [t \in TaskIds |-> TO_DO]
    /\ aiProcessed = [t \in TaskIds |-> FALSE]
    /\ emp = [h \in Employees |-> InitEmployee]
    /\ eventStore = EmptyBag
    /\ svc = IdleSvc /\ wf = IdleWf /\ DomainOff
    /\ life = InitLife
    /\ runs = IdleSide /\ chk = IdleSide /\ tracker = IdleSide /\ evrepo = IdleSide

\* the broker delivers to the registered callback until the connection is
\* closed: neither stop() nor the loop of start_consuming cancels the consumer
delivering == life.pc = "consuming"

\* TaskConsumer.stop (also the signal handler): only the flag is written
stop(l) == [l EXCEPT !.running = FALSE]

\* `while self.running: await asyncio.sleep(1)`: the loop is left at the
\* first wake-up that finds the flag down; nothing waits for the pipelines
loop_exit == ~life.running

\* a message is handed to process_message, which runs to its first await
Deliver(m) ==
    /\ delivering
    /\ ProcessMessageStart(m)

Stop ==
    /\ life.pc = "consuming"
    /\ life.running
    /\ life' = stop(life)
    /\ UNCHANGED <<consumerVars, svc, wf, hnd, reg, runs, chk, tracker, evrepo>>

\* the sleep of the loop returns with the flag down; `finally` calls
\* disconnect, which awaits connection.close()
LoopExits ==
    /\ life.pc = "consuming"
    /\ loop_exit
    /\ life' = [life EXCEPT !.pc = "closing"]
    /\ UNCHANGED <<consumerVars, svc, wf, hnd, reg, runs, chk, tracker, evrepo>>

\* connection.close() returns: the channel is gone
CloseReturns ==
    /\ life.pc = "closing"
    /\ life' = [life EXCEPT !.pc = "closed"]
    /\ UNCHANGED <<consumerVars, svc, wf, hnd, reg, runs, chk, tracker, evrepo>>

\* message.process().__aexit__ while the channel is still there
SettleOpen(m) ==
    /\ life.pc # "closed"
    /\ Settle(m)

\* message.process().__aexit__ once the channel is closed: ack and reject
\* raise, the message stays unsettled at the broker, the exception is
\* logged by `except Exception` and the semaphore is released
SettleClosed(m) ==
    /\ life.pc = "closed"
    /\ pipe[m].pc = "settling"
    /\ pipe' = [pipe EXCEPT ![m] = [@ EXCEPT !.pc = "done", !.exc = "none", !.settle = "lost"]]
    /\ sem' = sem + 1
    /\ UNCHANGED <<sinkStatus, aiProcessed, emp, eventStore, svc, wf, hnd, reg, sideVars>>

NextStop ==
    \/ \E m \in Msgs : Deliver(m)
    \/ \E m \in Msgs : ContentReturns(m)
    \/ \E m \in Msgs, o \in SinkOutcomes : InProgressReturns(m, o)
    \/ \E m \in Msgs, o \in WorkflowOutcomes : WorkflowReturns(m, o)
    \/ \E m \in Msgs, o \in SinkOutcomes : CommentReturns(m, o)
    \/ \E m \in Msgs, o \in SinkOutcomes : DoneReturns(m, o)
    \/ \E m \in Msgs, o \in {"ok", "raise"} : AiProcessedReturns(m, o)
    \/ \E m \in Msgs, o \in SinkOutcomes : RevertReturns(m, o)
    \/ \E m \in Msgs : StoreEventReturns(m)
    \/ \E m \in Msgs : SettleOpen(m)
    \/ \E m \in Msgs : SettleClosed(m)
    \/ Stop
    \/ LoopExits
    \/ CloseReturns

SpecStop == InitStop /\ [][NextStop]_vars

\* C22: once stop() has been called no new pipeline is started, and the
\* connection is closed only after every pipeline that was in flight has run
\* to its end and settled its message: no pipeline holds a slot while the
\* connection is being closed or is closed, and no message is left unsettled.
C22_GracefulStop ==
    /\ [](life.pc \in {"closing", "closed"} => \A m \in Msgs : pipe[m].pc \notin InGate)
    /\ [](\A m \in Msgs : pipe[m].settle # "lost")
    /\ [][~life.running => \A m \in Msgs : pipe[m].pc = "waiting" => pipe'[m].pc = "waiting"]_vars

(***************************************************************************)
(* SpecLive: Spec with the scheduling asyncio gives it.  The event loop    *)
(* runs every ready callback, and every awaited collaborator call returns  *)
(* in the end (with a value or an exception): a step that stays possible   *)
(* is taken.  No pipeline has a cycle, so weak fairness of Next is enough. *)
(* At most MaxLivePipelines of the messages carry a task that gets past    *)
(* validation; the others are dropped at the start of process_message.     *)
(***************************************************************************)
\* number of messages whose task is processed by an employee
MaxLivePipelines == 2

\* the deliveries of SpecLive: a body that is not JSON, and task t1 as
\* published while To Do and while In Progress
LiveBodies == {1, 2, 3}

InitLive ==
    /\ Init
    /\ \A m \in Msgs : \E i \in LiveBodies : pipe[m].body = Bodies[i]
    /\ Cardinality({m \in Msgs : json_loads(pipe[m].body) /\ ~ValidationFails(pipe[m].body)})
          <= MaxLivePipelines

SpecLive == InitLive /\ [][Next]_vars /\ WF_vars(Next)

\* process_task ran past `await workflow.execute` for message m: the one
\* event of m has been appended to the employee's queue
Enqueued(m) == pipe[m].result \in {"success", "failure"}

\* the number of entries of a sequence of events that belong to message m
CountOf(events, m) == Cardinality({i \in DOMAIN events : events[i].msg = m})

RECURSIVE SumOver(_, _)
SumOver(f, S) ==
    IF S = {} THEN 0
    ELSE LET x == CHOOSE y \in S : TRUE IN f[x] + SumOver(f, S \ {x})

\* how many copies of the event of message m wait in an employee's queue,
\* in the local list of a pipeline that drained it, or in the event store
Queued(m) == SumOver([h \in Employees |-> CountOf(emp[h].domain_events, m)], Employees)
InHand(m) == SumOver([x \in Msgs |-> CountOf(pipe[x].toStore, m)], Msgs)
StoredCopies(m) ==
    SumOver([e \in BagToSet(eventStore) |-> IF e.msg = m THEN CopiesIn(e, eventStore) ELSE 0],
            BagToSet(eventStore))

\* C23: every event enqueued while a message is processed is handed to the
\* event store exactly once, whichever pipeline drains it: at every instant
\* the event of a message exists in exactly one place (the employee's queue,
\* the list of the pipeline that drained it, or the store), never in two and
\* never in none, and from some point on every enqueued event is in the store.
C23_StoredExactlyOnce ==
    /\ [](\A m \in Msgs :
             Queued(m) + InHand(m) + StoredCopies(m) = IF Enqueued(m) THEN 1 ELSE 0)
    /\ <>[](\A m \in Msgs : Enqueued(m) => StoredCopies(m) = 1)

\* the event of a message is in the store while that message's own pipeline
\* has not yet come to its drain: another pipeline of the same employee
\* drained and stored it
C23_DrainedByAnother ==
    \E m \in Msgs :
        /\ StoredCopies(m) = 1
        /\ pipe[m].pc \in {"comment", "toDone", "aiProcessed", "revert"}

(***************************************************************************)
(* SpecRuns: two execute calls under way at once on one                    *)
(* EmployeeWorkflowGraph (the default graph) for one employee              *)
(* (workflows/employee_workflow.py:161-311).  Python objects are kept in a *)
(* heap: runs.heap[a] is the content of the list or dict at address a, and *)
(* a run's WorkflowState holds the addresses of its results list, its      *)
(* errors list and its context dict, so that two states naming one object  *)
(* would see each other's writes.  The workflow object itself is only read *)
(* by a run (workflow_type, llm, memory_repository, graph).                *)
(***************************************************************************)
Runs == {1, 2}

\* what self.llm.ainvoke hands back in SpecRuns: a short text, a full one, or an exception
RunLlmOutcomes ==
    {[raised |-> FALSE, text |-> t] : t \in {Text(10, 10, FALSE), Text(100, 100, TRUE)}}
        \cup {[raised |-> TRUE, text |-> NoText]}

\* the mutant: the two lists and the dict are built once and handed to every call
new_objects_Shared(next) == <<1, 2, 3>>

\* WorkflowState(results=[], errors=[], context={}, ...) in execute: the
\* three displays are evaluated at each call and give three new objects
new_objects(next) == <<next, next + 1, next + 2>>

\* the heap once the objects at addresses a exist: a new object is empty,
\* an object that exists is left as it is
Alloc(heap, a) ==
    [i \in 1..(IF a[3] > Len(heap) THEN a[3] ELSE Len(heap)) |->
        IF i <= Len(heap) THEN heap[i] ELSE <<>>]

NoInputs == [gather |-> "none", llm |-> [raised |-> FALSE, text |-> NoText], store |-> "none"]

\* a run before execute is called: no WorkflowState yet
NoRun ==
    [pc |-> "idle", results |-> 0, errors |-> 0, context |-> 0, retry_count |-> 0,
     current_step |-> "start", final_response |-> NoText,
     inputs |-> NoInputs, result |-> NoResult]

InitRuns ==
    /\ runs = [pc |-> "on", heap |-> <<>>, run |-> [r \in Runs |-> NoRun]]
    /\ life = IdleSide /\ chk = IdleSide /\ tracker = IdleSide /\ evrepo = IdleSide
    /\ svc = IdleSvc /\ wf = IdleWf /\ DomainOff
    /\ ConsumerOff

\* list.append on the object at address a
HeapAppend(heap, a, v) == [heap EXCEPT ![a] = Append(@, v)]

\* one node of run r has run: its state and the heap after it
RunStep(r, st, heap) ==
    /\ runs' = [runs EXCEPT !.run[r] = st, !.heap = heap]
    /\ UNCHANGED <<consumerVars, svc, wf, hnd, reg, life, chk, tracker, evrepo>>

\* execute up to `await self.graph.ainvoke(initial_state)`
Execute(r) ==
    /\ runs.run[r].pc = "idle"
    /\ LET a == new_objects(Len(runs.heap) + 1)
       IN RunStep(r, [runs.run[r] EXCEPT !.pc = "gather_context", !.results = a[1],
                                         !.errors = a[2], !.context = a[3]],
                  Alloc(runs.heap, a))

\* _gather_context: get_memories returns memories or none, or raises (o)
RunGatherContext(r, o) ==
    LET st == runs.run[r] IN
    /\ st.pc = "gather_context"
    /\ IF o = "raise"
       THEN RunStep(r, [st EXCEPT !.pc = "execute_llm_action", !.inputs.gather = o],
                    HeapAppend(runs.heap, st.errors, "context"))
       ELSE RunStep(r, [st EXCEPT !.pc = "execute_llm_action", !.inputs.gather = o,
                                  !.current_step = "context_gathered"],
                    [runs.heap EXCEPT ![st.context] = <<<<"memories", o>>>>])

\* _execute_llm_action: self.llm.ainvoke returns a text or raises (o)
RunExecuteLlmAction(r, o) ==
    LET st == runs.run[r] IN
    /\ st.pc = "execute_llm_action"
    /\ IF o.raised
       THEN RunStep(r, [st EXCEPT !.pc = "validate_result", !.inputs.llm = o,
                                  !.current_step = "action_failed"],
                    HeapAppend(runs.heap, st.errors, "llm"))
       ELSE RunStep(r, [st EXCEPT !.pc = "validate_result", !.inputs.llm = o,
                                  !.current_step = "action_executed"],
                    HeapAppend(runs.heap, st.results, o.text))

\* _validate_result
RunValidateResult(r) ==
    LET st == runs.run[r]
        results == runs.heap[st.results]
    IN
    /\ st.pc = "validate_result"
    /\ IF results = <<>>
       THEN RunStep(r, [st EXCEPT !.pc = "store_memory"],
                    HeapAppend(runs.heap, st.errors, "none"))
       ELSE RunStep(r, [st EXCEPT !.pc = "store_memory", !.current_step = "result_validated"],
                    IF results[Len(results)].stripped < MinResultLength
                    THEN HeapAppend(runs.heap, st.errors, "short")
                    ELSE runs.heap)

\* _store_memory: with a result, store_memory returns or raises (o)
RunStoreMemory(r, o) ==
    LET st == runs.run[r] IN
    /\ st.pc = "store_memory"
    /\ runs.heap[st.results] = <<>> => o = "ok"
    /\ RunStep(r, [st EXCEPT !.pc = "finalize_result", !.inputs.store = o,
                             !.current_step = "memory_stored"],
               IF o = "raise" THEN HeapAppend(runs.heap, st.errors, "memory") ELSE runs.heap)

\* _finalize_result
RunFinalizeResult(r) ==
    LET st == runs.run[r]
        results == runs.heap[st.results]
    IN
    /\ st.pc = "finalize_result"
    /\ RunStep(r, [st EXCEPT !.pc = "END", !.current_step = "finalized",
                             !.final_response = IF results # <<>> THEN results[Len(results)]
                                                ELSE @],
               runs.heap)

\* execute after ainvoke: the TaskProcessingResult built from the final state
RunReturns(r) ==
    LET st == runs.run[r]
        results == runs.heap[st.results]
        errors == runs.heap[st.errors]
        final_response == IF st.final_response.len = 0 /\ results # <<>>
                          THEN results[Len(results)] ELSE st.final_response
    IN
    /\ st.pc = "END"
    /\ RunStep(r, [st EXCEPT !.pc = "returned",
                             !.result = TaskProcessingResult(
                                 errors = <<>> /\ final_response.len > 0,
                                 IF final_response.len > 0 THEN <<final_response>> ELSE <<>>,
                                 errors)],
               runs.heap)

NextRuns ==
    \/ \E r \in Runs : Execute(r)
    \/ \E r \in Runs, o \in {"found", "empty", "raise"} : RunGatherContext(r, o)
    \/ \E r \in Runs, o \in RunLlmOutcomes : RunExecuteLlmAction(r, o)
    \/ \E r \in Runs : RunValidateResult(r)
    \/ \E r \in Runs, o \in {"ok", "raise"} : RunStoreMemory(r, o)
    \/ \E r \in Runs : RunFinalizeResult(r)
    \/ \E r \in Runs : RunReturns(r)

SpecRuns == InitRuns /\ [][NextRuns]_vars

\* the objects that make up the run context of run r
RunObjects(r) ==
    IF runs.run[r].pc = "idle" THEN {}
    ELSE {runs.run[r].results, runs.run[r].errors, runs.run[r].context}

\* what a run returns when it is the only one, as a function of the answers
\* its own collaborators gave it
ExpectedResult(inp) ==
    LET results == IF inp.llm.raised THEN <<>> ELSE <<inp.llm.text>>
        errors ==
            (IF inp.gather = "raise" THEN <<"context">> ELSE <<>>)
            \o (IF inp.llm.raised THEN <<"llm">> ELSE <<>>)
            \o (IF results = <<>> THEN <<"none">>
                ELSE IF results[1].stripped < MinResultLength THEN <<"short">> ELSE <<>>)
            \o (IF inp.store = "raise" THEN <<"memory">> ELSE <<>>)
    IN TaskProcessingResult(errors = <<>> /\ results # <<>>, results, errors)

\* C24: every execute call builds its own run context, and two runs under
\* way at once on one workflow object never share it: the results list, the
\* errors list and the context dict of one run are none of the other's, a
\* step of one run leaves the other's objects and state as they were, and
\* what a run returns is what its own collaborators' answers determine.
C24_RunsIsolated ==
    /\ [](runs.pc # "off" =>
            /\ \A r1, r2 \in Runs : r1 # r2 => RunObjects(r1) \cap RunObjects(r2) = {}
            /\ \A r \in Runs : Cardinality(RunObjects(r)) \in {0, 3}
            /\ \A r \in Runs : runs.run[r].pc = "returned" =>
                  runs.run[r].result = ExpectedResult(runs.run[r].inputs))
    /\ [][runs.pc # "off" =>
            \A r \in Runs :
                (runs'.run[r] = runs.run[r]) =>
                    \A a \in RunObjects(r) : runs'.heap[a] = runs.heap[a]]_vars

\* both runs are under way: one has its result and is about to store it,
\* the other has recorded the failure of its LLM call
C24_BothInFlight ==
    /\ runs.pc # "off"
    /\ \E r1, r2 \in Runs :
          /\ runs.run[r1].pc = "store_memory"
          /\ runs.heap[runs.run[r1].results] # <<>>
          /\ runs.heap[runs.run[r1].errors] = <<>>
          /\ runs.run[r2].pc = "validate_result"
          /\ runs.heap[runs.run[r2].errors] = <<"llm">>

(***************************************************************************)
(* SpecCheck: the EventCheck classes (domain/event_checks.py) called on    *)
(* arbitrary arguments.  chk holds the check object built last, the        *)
(* arguments and outcome of the constructor call, and the arguments and    *)
(* result of the matches call made on the object: one check is built and   *)
(* then evaluated once.                                                    *)
(***************************************************************************)
\* longest list of sub-checks handed to CompositeCheck
MaxSubChecks == 2

\* the checks built without sub-checks
LeafChecks == {AssignmentCheck, KeywordCheck({"spec"}), StatusCheck({TO_DO})}

\* the lists of sub-checks: leaf checks, and (at length one) a composite
SubCheckLists ==
    UNION {[1..n -> LeafChecks] : n \in 0..MaxSubChecks}
        \cup {<<CompositeCheck(<<>>, "AND")>>,
              <<CompositeCheck(<<AssignmentCheck, KeywordCheck({"spec"})>>, "OR")>>}

\* the operator strings handed to CompositeCheck
Operators == {"AND", "OR", "and", "or", "XOR", "xor", ""}

\* the values of the AI Employee column and of ArtificialEmployee.name
CheckNames == {"Alice", "alice", " Alice ", " alice ", "Bob", " ", ""}

CheckTasks ==
    {[notion_id |-> "t1", status |-> s, ai_employee |-> n, words |-> w, length |-> 30] :
        s \in {TO_DO, DONE}, n \in CheckNames \cup {"None"}, w \in {{}, {"spec"}}}

InitCheck ==
    /\ chk = [pc |-> "on", check |-> AssignmentCheck, op |-> "none", operator |-> "none",
              raised |-> "none", task |-> NoTask, employee_name |-> "", ret |-> FALSE]
    /\ life = IdleSide /\ runs = IdleSide /\ tracker = IdleSide /\ evrepo = IdleSide
    /\ svc = IdleSvc /\ wf = IdleWf /\ DomainOff
    /\ ConsumerOff

\* AssignmentCheck(), KeywordCheck(keywords), StatusCheck(statuses)
NewLeafCheck(check) ==
    /\ chk.op = "none"
    /\ chk' = [chk EXCEPT !.check = check, !.op = "LeafCheck", !.operator = "none",
                          !.raised = "none"]
    /\ UNCHANGED <<consumerVars, svc, wf, hnd, reg, life, runs, tracker, evrepo>>

\* CompositeCheck(checks, operator): the object is built, or ValueError is raised
NewCompositeCheck(checks, operator) ==
    /\ chk.op = "none"
    /\ chk' = IF composite_init(operator) = "ok"
              THEN [chk EXCEPT !.check = CompositeCheck(checks, operator),
                               !.op = "CompositeCheck", !.operator = operator,
                               !.raised = "none"]
              ELSE [chk EXCEPT !.op = "CompositeCheck", !.operator = operator,
                               !.raised = "ValueError"]
    /\ UNCHANGED <<consumerVars, svc, wf, hnd, reg, life, runs, tracker, evrepo>>

\* check.matches(task, employee) on the check built last
Matches(task, employee_name) ==
    /\ chk.op \in {"LeafCheck", "CompositeCheck"}
    /\ chk.raised = "none"
    /\ chk' = [chk EXCEPT !.op = "matches", !.task = task, !.employee_name = employee_name,
                          !.ret = matches(chk.check, task, employee_name)]
    /\ UNCHANGED <<consumerVars, svc, wf, hnd, reg, life, runs, tracker, evrepo>>

NextCheck ==
    \/ \E check \in LeafChecks : NewLeafCheck(check)
    \/ \E checks \in SubCheckLists, operator \in Operators : NewCompositeCheck(checks, operator)
    \/ \E task \in CheckTasks, employee_name \in CheckNames : Matches(task, employee_name)

SpecCheck == InitCheck /\ [][NextCheck]_vars

\* what the last matches call on a composite has to return: false without
\* sub-checks, else the conjunction (AND) or the disjunction (OR) of what
\* the sub-checks return
CompositeExpected ==
    IF Len(chk.check.checks) = 0 THEN FALSE
    ELSE IF chk.check.operator = "AND"
         THEN \A i \in 1..Len(chk.check.checks) :
                  matches(chk.check.checks[i], chk.task, chk.employee_name)
         ELSE \E i \in 1..Len(chk.check.checks) :
                  matches(chk.check.checks[i], chk.task, chk.employee_name)

\* C25, as it holds: a Composite without sub-checks matches no task, under
\* AND and under OR; with sub-checks AND matches iff all of them match and
\* OR iff one does; and the constructor raises exactly when the operator,
\* once upper-cased, is neither AND nor OR ("and" and "or" are accepted).
C25_CompositeSemantics ==
    chk.pc # "off" =>
        /\ (chk.op = "matches" /\ chk.check.type = "Composite") =>
              /\ chk.check.operator \in {"AND", "OR"}
              /\ chk.ret = CompositeExpected
        /\ chk.op = "CompositeCheck" =>
              (chk.raised = "ValueError" <=> Upper(chk.operator) \notin {"AND", "OR"})

\* C25, as stated: the same, with the constructor raising for every
\* operator other than AND and OR.
C25_OtherOperatorRaises ==
    chk.pc # "off" =>
        /\ (chk.op = "matches" /\ chk.check.type = "Composite") => chk.ret = CompositeExpected
        /\ (chk.op = "CompositeCheck" /\ chk.operator \notin {"AND", "OR"}) =>
              chk.raised = "ValueError"

\* a composite built with "or" over two sub-checks, of which only the
\* second matches the task, has matched it
C25_LowerCaseOrMatched ==
    /\ chk.pc # "off"
    /\ chk.op = "matches"
    /\ chk.check.type = "Composite"
    /\ chk.operator = "or"
    /\ Len(chk.check.checks) = 2
    /\ ~matches(chk.check.checks[1], chk.task, chk.employee_name)
    /\ matches(chk.check.checks[2], chk.task, chk.employee_name)
    /\ chk.ret

\* C26: AssignmentCheck.matches(T, H) is true exactly when T's AI Employee
\* value is there and not blank, and equals H's name once both are trimmed
\* and lower-cased.
C26_AssignmentMatch ==
    (chk.pc # "off" /\ chk.op = "matches" /\ chk.check = AssignmentCheck) =>
        (chk.ret <=>
            /\ chk.task.ai_employee # "None"
            /\ Strip(chk.task.ai_employee) # ""
            /\ Lower(Strip(chk.task.ai_employee)) = Lower(Strip(chk.employee_name)))

\* the task names " alice " and the employee is called "Alice": they matched
C26_MatchedAcrossCaseAndBlanks ==
    /\ chk.pc # "off"
    /\ chk.op = "matches"
    /\ chk.check = AssignmentCheck
    /\ chk.task.ai_employee = " alice "
    /\ chk.employee_name = "Alice"
    /\ chk.ret

(***************************************************************************)
(* SpecTracker: one TaskTracker (infrastructure/task_tracker.py) on an     *)
(* empty storage file, and threads that each call mark_task_processed on   *)
(* ids of their own, as in tests/test_task_tracker.py:161-187.  Threads    *)
(* are preemptive: each statement of mark_task_processed and               *)
(* save_processed_tasks is a step, and self._lock is what keeps the steps  *)
(* of two threads apart.  The file system does what it is asked: the       *)
(* except clause of save_processed_tasks is entered only when the          *)
(* temporary file is gone at the rename.                                   *)
(***************************************************************************)
\* number of threads started, and ids each one marks
MaxThreads == 2
TasksPerThread == 2

Threads == 0..(MaxThreads - 1)

\* add_tasks(start_id, count): the k-th id marked by thread t, start_id being t * 10
TaskIdOf(t, k) == t * 10 + (k - 1)

NoFile == [exists |-> FALSE, ids |-> {}]

\* TaskTracker.__init__ on a storage file that does not exist, and the
\* threads before their first call
InitTracker ==
    /\ tracker = [pc |-> "on", lock |-> -1, processed_tasks |-> {},
                  storage_file |-> NoFile, temp_file |-> NoFile,
                  thread |-> [t \in Threads |-> [pc |-> "call", k |-> 1, data |-> {}]]]
    /\ life = IdleSide /\ runs = IdleSide /\ chk = IdleSide /\ evrepo = IdleSide
    /\ svc = IdleSvc /\ wf = IdleWf /\ DomainOff
    /\ ConsumerOff

\* the mutant: `with self._lock` lets a thread in while another holds the lock
lock_free_Always == TRUE

\* threading.Lock: acquire goes through only while no thread holds the lock
lock_free == tracker.lock = -1

TrackerStep(t, pc, tr) ==
    /\ tracker' = [tr EXCEPT !.thread[t].pc = pc]
    /\ UNCHANGED <<consumerVars, svc, wf, hnd, reg, life, runs, chk, evrepo>>

\* mark_task_processed: `with self._lock:` is entered
AcquireForAdd(t) ==
    /\ tracker.thread[t].pc = "call"
    /\ lock_free
    /\ TrackerStep(t, "add", [tracker EXCEPT !.lock = t])

\* self.processed_tasks.add(task_id), and the lock is released
AddTask(t) ==
    /\ tracker.thread[t].pc = "add"
    /\ TrackerStep(t, "save",
          [tracker EXCEPT !.processed_tasks = @ \cup {TaskIdOf(t, tracker.thread[t].k)},
                          !.lock = -1])

\* save_processed_tasks: `with self._lock:` is entered
AcquireForSave(t) ==
    /\ tracker.thread[t].pc = "save"
    /\ lock_free
    /\ TrackerStep(t, "snapshot", [tracker EXCEPT !.lock = t])

\* data = {"processed_tasks": list(self.processed_tasks)}
Snapshot(t) ==
    /\ tracker.thread[t].pc = "snapshot"
    /\ TrackerStep(t, "write", [tracker EXCEPT !.thread[t].data = tracker.processed_tasks])

\* open(temp_file, "w") ... json.dump(data, f): the temporary file holds data
WriteTemp(t) ==
    /\ tracker.thread[t].pc = "write"
    /\ TrackerStep(t, "replace",
          [tracker EXCEPT !.temp_file = [exists |-> TRUE, ids |-> tracker.thread[t].data]])

\* temp_file.replace(self.storage_file); without a temporary file the call
\* raises and the except clause leaves the storage file as it is.  The lock
\* is released, save_processed_tasks and mark_task_processed return, and
\* the thread goes on to its next id.
ReplaceFile(t) ==
    /\ tracker.thread[t].pc = "replace"
    /\ LET tr == IF tracker.temp_file.exists
                 THEN [tracker EXCEPT !.storage_file = tracker.temp_file, !.temp_file = NoFile]
                 ELSE tracker
           last == tracker.thread[t].k = TasksPerThread
       IN TrackerStep(t, IF last THEN "returned" ELSE "call",
             [tr EXCEPT !.lock = -1, !.thread[t].k = IF last THEN @ ELSE @ + 1])

NextTracker ==
    \/ \E t \in Threads : AcquireForAdd(t)
    \/ \E t \in Threads : AddTask(t)
    \/ \E t \in Threads : AcquireForSave(t)
    \/ \E t \in Threads : Snapshot(t)
    \/ \E t \in Threads : WriteTemp(t)
    \/ \E t \in Threads : ReplaceFile(t)

SpecTracker == InitTracker /\ [][NextTracker]_vars

\* the ids whose add has been carried out by thread t
Marked(t) ==
    {TaskIdOf(t, k) : k \in {j \in 1..TasksPerThread :
        \/ j < tracker.thread[t].k
        \/ j = tracker.thread[t].k /\ tracker.thread[t].pc \notin {"call", "add"}}}

\* C27: with several threads calling mark_task_processed at once no id is
\* lost: the processed set holds exactly the ids marked so far, and once
\* every call has returned the storage file holds that same set, which is
\* every id that was marked.
C27_NoIdLost ==
    tracker.pc # "off" =>
        /\ tracker.processed_tasks = UNION {Marked(t) : t \in Threads}
        /\ (\A t \in Threads : tracker.thread[t].pc = "returned") =>
              /\ tracker.processed_tasks =
                    {TaskIdOf(t, k) : t \in Threads, k \in 1..TasksPerThread}
              /\ tracker.storage_file.exists
              /\ tracker.storage_file.ids = tracker.processed_tasks

\* one thread, its id added, waits for the lock to save, while the save of
\* another thread has written that id to the temporary file
C27_SavedByOther ==
    /\ tracker.pc # "off"
    /\ \E a, b \in Threads :
          /\ a # b
          /\ tracker.thread[a].pc = "save"
          /\ tracker.thread[b].pc = "replace"
          /\ TaskIdOf(a, tracker.thread[a].k) \in tracker.temp_file.ids

(***************************************************************************)
(* Properties of the retry counter, checked under SpecWF                   *)
(***************************************************************************)
\* C28: a run of the research graph goes back from execute_llm_action to
\* analyze_research_scope at most once, and only when the latest result is
\* shorter than 500 characters and retry_count is still 0; so
\* execute_llm_action runs at most twice and is followed by
\* validate_result.
C28_ResearchLoopsOnce ==
    /\ [](wf.graph = "research" => (wf.continue_loops <= 1 /\ wf.llm_calls <= 2))
    /\ [][(wf.graph = "research" /\ wf.node = "execute_llm_action") =>
             IF wf'.continue_loops = wf.continue_loops + 1
             THEN /\ wf.retry_count = 0
                  /\ wf'.nresults > 0
                  /\ wf'.last.len < MinResearchLength
             ELSE wf'.node \in {"validate_result", "raised"}]_vars

\* C29: in every state of every run retry_count lies between 0 and 2, and a
\* run goes back from execute_llm_action to gather_context at most 2 times.
C29_RetryCounterBounded ==
    /\ wf.retry_count \in 0..MaxRetries
    /\ wf.retry_loops <= MaxRetries

(***************************************************************************)
(* SpecEvents: FileEventRepository (infrastructure/repositories.py)        *)
(*                                                                         *)
(* One repository and its events file.  store_event appends one line per   *)
(* event; a query reads the lines from the first to the last.  The file    *)
(* system works, so the try blocks of the three methods never reach their  *)
(* except clauses, and every line is one that store_event wrote, so        *)
(* json.loads never fails on a line.  event_id is the position at which    *)
(* the event was appended, so a larger event_id is a more recent event.    *)
(***************************************************************************)
MaxStored == 4
EventTypes == {"TaskProcessedEvent", "TaskProcessingFailedEvent"}
EntityIds == {"t1", "t11"}
Limits == {0, 1, 2}

\* `entity_id in str(data)`: entity_id occurs in the text of the event's data
\* ("t1" occurs in "t11").
occurs_in(entity_id, data) ==
    \/ entity_id = data.task_id
    \/ entity_id = "t1" /\ data.task_id = "t11"

NoQuery == [by |-> "none", arg |-> "", limit |-> 0]

InitEvents ==
    /\ ConsumerOff
    /\ svc = IdleSvc
    /\ wf = IdleWf
    /\ DomainOff
    /\ life = IdleSide /\ runs = IdleSide /\ chk = IdleSide /\ tracker = IdleSide
    /\ evrepo = [pc |-> "idle", events_file |-> <<>>, query |-> NoQuery, answer |-> <<>>]

\* os.path.exists(self.events_file): the file exists once a line was appended.
path_exists(events_file) == events_file # <<>>

\* The `for line in f` loop of both queries: the lines in file order, a
\* matching one appended to events, and `break` as soon as
\* len(events) >= limit.
RECURSIVE read_lines(_, _, _, _)
read_lines(lines, matching, limit, events) ==
    IF lines = <<>> THEN events
    ELSE IF Head(lines) \in matching
         THEN LET appended == Append(events, Head(lines))
              IN  IF Len(appended) >= limit THEN appended
                  ELSE read_lines(Tail(lines), matching, limit, appended)
         ELSE read_lines(Tail(lines), matching, limit, events)

\* events[-limit:]: the last limit items, the whole list when it is shorter,
\* and (as -0 is 0) the whole list when limit is 0.
last_items(events, limit) ==
    IF limit = 0 \/ limit >= Len(events) THEN events
    ELSE SubSeq(events, Len(events) - limit + 1, Len(events))

LinesOf(events_file) == {events_file[i] : i \in 1..Len(events_file)}

get_events(events_file, matching, limit) ==
    IF ~path_exists(events_file) THEN <<>>
    ELSE last_items(read_lines(events_file, matching, limit, <<>>), limit)

type_matching(events_file, event_type) ==
    {l \in LinesOf(events_file) : l.event_type = event_type}

entity_matching(events_file, entity_id) ==
    {l \in LinesOf(events_file) : occurs_in(entity_id, l.data)}

store_event(event_type, task_id) ==
    /\ evrepo.pc = "idle"
    /\ Len(evrepo.events_file) < MaxStored
    /\ evrepo' = [evrepo EXCEPT !.events_file =
                     Append(@, [event_type |-> event_type,
                                event_id |-> Len(@) + 1,
                                data |-> [task_id |-> task_id]])]
    /\ UNCHANGED <<consumerVars, svc, wf, hnd, reg, life, runs, chk, tracker>>

get_events_by_type(event_type, limit) ==
    /\ evrepo.pc = "idle"
    /\ evrepo' = [evrepo EXCEPT
                     !.pc = "answered",
                     !.query = [by |-> "type", arg |-> event_type, limit |-> limit],
                     !.answer = get_events(evrepo.events_file,
                                           type_matching(evrepo.events_file, event_type),
                                           limit)]
    /\ UNCHANGED <<consumerVars, svc, wf, hnd, reg, life, runs, chk, tracker>>

get_events_for_entity(entity_id, limit) ==
    /\ evrepo.pc = "idle"
    /\ evrepo' = [evrepo EXCEPT
                     !.pc = "answered",
                     !.query = [by |-> "entity", arg |-> entity_id, limit |-> limit],
                     !.answer = get_events(evrepo.events_file,
                                           entity_matching(evrepo.events_file, entity_id),
                                           limit)]
    /\ UNCHANGED <<consumerVars, svc, wf, hnd, reg, life, runs, chk, tracker>>

NextEvents ==
    \/ \E event_type \in EventTypes, task_id \in EntityIds : store_event(event_type, task_id)
    \/ \E event_type \in EventTypes, limit \in Limits : get_events_by_type(event_type, limit)
    \/ \E entity_id \in EntityIds, limit \in Limits : get_events_for_entity(entity_id, limit)

SpecEvents == InitEvents /\ [][NextEvents]_vars

\* The stored events the answered query matches, most recent first.
MatchingRecentFirst ==
    LET f == evrepo.events_file
        hit(l) == IF evrepo.query.by = "type"
                  THEN l.event_type = evrepo.query.arg
                  ELSE occurs_in(evrepo.query.arg, l.data)
        ids == {i \in 1..Len(f) : hit(f[i])}
        nth(k) == CHOOSE i \in ids : Cardinality({j \in ids : j > i}) = k - 1
    IN  [k \in 1..Cardinality(ids) |-> f[nth(k)]]

\* C30: a query answers with at most limit events, and when more than limit
\* stored events match, with the limit most recently appended ones, the most
\* recent first.
C30_QueryMostRecent ==
    evrepo.pc = "answered" =>
        /\ Len(evrepo.answer) <= evrepo.query.limit
        /\ Len(MatchingRecentFirst) > evrepo.query.limit =>
               evrepo.answer = SubSeq(MatchingRecentFirst, 1, evrepo.query.limit)

(***************************************************************************)
(* Further properties of a workflow run, checked under SpecWF              *)
(***************************************************************************)
\* gather_context has just run and get_memories raised: the except clause
\* leaves current_step as it was, the try body sets it
GatherJustFailed ==
    wf.last_node = "gather_context" /\ wf.current_step # "context_gathered"

\* C31: a failure of the memory store in gather_context does not end the
\* run: the error is in the run's errors, the run is at the step that
\* follows gather_context in its graph (unless the library's step limit
\* ended the run at that very step), from there it reaches
\* execute_llm_action, and no run gets past these steps without having
\* invoked execute_llm_action.
C31_GatherFailureGoesOn ==
    /\ GatherJustFailed =>
          /\ wf.errors >= 1
          /\ \/ wf.node = EdgeTarget(wf.graph, "gather_context", "next")
             \/ wf.raised = "GraphRecursionError" /\ wf.steps >= RecursionLimit
    /\ wf.last_node \in {"analyze_research_scope", "analyze_code"} =>
          wf.node = "execute_llm_action"
    /\ wf.node \notin {"gather_context", "analyze_research_scope", "analyze_code",
                       "execute_llm_action"} =>
          wf.llm_calls >= 1

\* the first gather_context failed and the run went on to the next step of
\* its graph
C31_WentOnAfterFailure ==
    \/ GatherJustFailed /\ wf.steps = 1 /\ wf.node = "execute_llm_action"
    \/ GatherJustFailed /\ wf.steps = 1 /\ wf.node = "analyze_research_scope"

(***************************************************************************)
(* SpecFind: TaskAssignmentService.find_assigned_employee on a registry    *)
(* that register_employee and remove_employee have built                   *)
(* (services.py:21-26, artificial_employee.py:277-279).  A lookup is       *)
(* recorded in reg like the other calls: arg.name holds the task's         *)
(* ai_employee and ret the employee_id of the employee returned.           *)
(***************************************************************************)
\* task.ai_employee as the mapper hands it over: None, or the text of the
\* column with its blanks
AiEmployeeValues == {"None", " ", "Alice", "alice", " Alice ", "Bob", "Zed"}

\* EmployeeRegistry.get_employee_by_name on the registry r
registry_get_employee_by_name(r, name) ==
    IF Lower(name) \in DOMAIN r.employees_by_name
    THEN r.employees_by_name[Lower(name)]
    ELSE NoEmployee

\* TaskAssignmentService.find_assigned_employee on the registry r
registry_find_assigned_employee(r, task) ==
    IF ~has_ai_employee_assigned(task) THEN NoEmployee
    ELSE registry_get_employee_by_name(r, task.ai_employee)

FindAssignedEmployee(ai_employee) ==
    /\ reg.pc # "off"
    /\ reg' = [reg EXCEPT
                 !.op = "find_assigned_employee",
                 !.arg = [employee_id |-> "None", name |-> ai_employee],
                 !.raised = "none",
                 !.ret = registry_find_assigned_employee(
                             reg, [ai_employee |-> ai_employee]).employee_id]
    /\ UNCHANGED <<consumerVars, svc, wf, hnd, sideVars>>

NextFind ==
    \/ \E employee \in EmployeeObjects : RegisterEmployee(employee)
    \/ \E employee_id \in EmployeeIds : RemoveEmployee(employee_id)
    \/ \E ai_employee \in AiEmployeeValues : FindAssignedEmployee(ai_employee)

SpecFind == InitReg /\ [][NextFind]_vars

\* C32: find_assigned_employee(T) returns H for every registered employee H
\* that AssignmentCheck matches with T (T is assigned to H's name, letter
\* case and surrounding blanks aside), and returns None when T has no
\* assignment.
C32_FindsMatchingHandler ==
    reg.op = "find_assigned_employee" =>
        LET task == [ai_employee |-> reg.arg.name]
        IN  /\ \A H \in Registered(reg) :
                  matches(AssignmentCheck, task, H.name) => reg.ret = H.employee_id
            /\ ~has_ai_employee_assigned(task) => reg.ret = "None"

(***************************************************************************)
(* Further properties of the consumer, checked under Spec                  *)
(***************************************************************************)
\* the pipeline of m has left process_message at the test of
\* transition_to_in_progress: an employee was found, nothing came of it
StoppedAtTransition(r) ==
    r.pc \in {"settling", "done"} /\ r.employee # "None" /\ r.result = "none"

\* C33: process_task (and with it the workflow run) is entered only when
\* transition_to_in_progress has returned true: either the task already was
\* In Progress, or the sink has just written In Progress.  When the
\* transition is refused or the sink reports failure the pipeline goes
\* straight to settling its message: no workflow run, no comment, no Done,
\* no revert, and the external status is left as it was.
C33_WorkflowAfterInProgress ==
    /\ [](\A m \in Msgs : StoppedAtTransition(pipe[m]) =>
             pipe[m].ops = {} /\ pipe[m].settle = "ack")
    /\ [][\A m \in Msgs :
            LET r == pipe[m]
                r2 == pipe'[m]
                t == transition_to_in_progress(EnumStatus(r.task.status))
            IN  /\ (r.pc # "workflow" /\ r2.pc = "workflow") =>
                      \/ r.pc = "content" /\ t = "true"
                      \/ r.pc = "toInProgress" /\ sinkStatus'[r.task.notion_id] = IN_PROGRESS
                /\ (r.pc = "content" /\ t = "false" /\ r2 # r) => StoppedAtTransition(r2)
                /\ (r.pc = "toInProgress" /\ r2 # r
                      /\ sinkStatus'[r.task.notion_id] # IN_PROGRESS) =>
                      StoppedAtTransition(r2) /\ sinkStatus' = sinkStatus /\ emp' = emp
                /\ (StoppedAtTransition(r) /\ r2 # r) =>
                      r.pc = "settling" /\ r2.pc = "done" /\ r2.ops = {}
                         /\ sinkStatus' = sinkStatus /\ emp' = emp]_vars

\* the sink refused In Progress for a task assigned to Alice: the message is
\* settled, no workflow has run and the task is still To Do
C33_StoppedOnSinkFailure ==
    \E m \in Msgs :
        /\ StoppedAtTransition(pipe[m]) /\ pipe[m].pc = "done"
        /\ pipe[m].employee = "Alice"
        /\ sinkStatus[pipe[m].task.notion_id] = TO_DO
        /\ emp["Alice"].tasks_processed = 0

\* C34: within a run the errors only grow (no step and no branch function
\* removes one), and a run in which an error was recorded returns a result
\* with success = False, whatever the steps run again after it returned.
C34_ErrorsOnlyGrow ==
    /\ [][wf'.errors >= wf.errors]_vars
    /\ [](wf.node = "returned" /\ wf.errors > 0 => ~wf.result.success)
    /\ [][(wf.node # "returned" /\ wf'.node = "returned" /\ wf.raised = "none") =>
             wf'.result.nerrors = wf.errors]_vars

\* a run of the specification graph went back to gather_context after an
\* error, its last call of the LLM returned a long text that names the three
\* sections, and the result still says success = False
C34_RetriedInVain ==
    /\ wf.node = "returned" /\ wf.raised = "none"
    /\ wf.retry_loops >= 1
    /\ wf.current_step = "error_handled"
    /\ wf.last.sections /\ wf.last.stripped >= MinResultLength
    /\ ~wf.result.success

SoftGraphs == {"default", "research", "documentation"}

NextSinkOk ==
    \/ \E m \in Msgs : ProcessMessageStart(m)
    \/ \E m \in Msgs : ContentReturns(m)
    \/ \E m \in Msgs : InProgressReturns(m, "true")
    \/ \E m \in Msgs, o \in WorkflowOutcomes : WorkflowReturns(m, o)
    \/ \E m \in Msgs, o \in SinkOutcomes : CommentReturns(m, o)
    \/ \E m \in Msgs : DoneReturns(m, "true")
    \/ \E m \in Msgs, o \in {"ok", "raise"} : AiProcessedReturns(m, o)
    \/ \E m \in Msgs : RevertReturns(m, "true")
    \/ \E m \in Msgs : StoreEventReturns(m)
    \/ \E m \in Msgs : Settle(m)

SpecSinkOk == InitLive /\ [][NextSinkOk]_vars /\ WF_vars(NextSinkOk)

\* the pipeline r has moved its task to In Progress: the message said To Do
\* and the pipeline got past transition_to_in_progress
MovedToInProgress(r) == r.body.status = "To Do" /\ r.task.status = IN_PROGRESS

\* the pipeline r has left `async with message.process()`
Leaving(r) == r.pc \in {"settling", "done", "escaped"}

\* C36: with a status sink whose calls succeed, a pipeline that moved its
\* task to In Progress has, by the time it settles its message, moved it to
\* Done or back to To Do; every such pipeline gets there, and once the
\* pipelines are through no task is left In Progress.
C36_InProgressResolved ==
    /\ [](\A m \in Msgs :
             (MovedToInProgress(pipe[m]) /\ Leaving(pipe[m])) =>
                 pipe[m].ops \cap {"doneSet", "revert"} # {})
    /\ []((\A m \in Msgs : pipe[m].pc = "done") =>
             \A t \in TaskIds : sinkStatus[t] # IN_PROGRESS)
    /\ <>[](\A m \in Msgs : pipe[m].pc = "done")

\* a pipeline moved t1 to In Progress, its workflow failed, and it settled
\* its message after the revert: t1 is To Do again
C36_RevertedBeforeSettle ==
    \E m \in Msgs :
        /\ MovedToInProgress(pipe[m]) /\ pipe[m].pc = "done"
        /\ pipe[m].result = "failure" /\ pipe[m].ops = {"revert"}
        /\ sinkStatus[pipe[m].task.notion_id] = TO_DO

C38_IndexesAgree ==
    /\ [](reg.pc # "off" =>
            /\ \A k \in DOMAIN reg.employees :
                  LET e == reg.employees[k]
                  IN  /\ Lower(e.name) \in DOMAIN reg.employees_by_name
                      /\ reg.employees_by_name[Lower(e.name)] = e
            /\ \A n \in DOMAIN reg.employees_by_name :
                  LET e == reg.employees_by_name[n]
                  IN  /\ e.employee_id \in DOMAIN reg.employees
                      /\ reg.employees[e.employee_id] = e)
    /\ [][(reg'.op = "remove_employee" /\ reg'.arg.employee_id \in DOMAIN reg.employees) =>
             LET e == reg.employees[reg'.arg.employee_id]
             IN  /\ reg'.ret = "True"
                 /\ reg'.employees = DictDel(reg.employees, e.employee_id)
                 /\ reg'.employees_by_name = DictDel(reg.employees_by_name, Lower(e.name))]_vars

\* "Alice" was removed while "Bob" stays registered, and the name is free
\* again in both dicts
C38_RemovedFromBoth ==
    /\ reg.pc # "off"
    /\ reg.op = "remove_employee" /\ reg.ret = "True"
    /\ "alice" \notin DOMAIN reg.employees_by_name
    /\ \E e \in Registered(reg) : e.name = "Bob"
    /\ Cardinality(DOMAIN reg.employees_by_name) = 1

(***************************************************************************)
(* SpecMonitor: TaskMonitorService.check_for_new_tasks (monitor.py:56-100) *)
(* with its TaskTracker and its RabbitMQPublisher.  The monitor is one     *)
(* thread: a cycle fetches the tasks, filters them and then publishes and  *)
(* marks them one after the other.  tracker holds the tracker's            *)
(* processed_tasks, the list the cycle under way still has to publish, and *)
(* what the queue has received.  publish_task returns or raises            *)
(* (rabbitmq_client.py:41-80: it reconnects and tries once more on a closed *)
(* connection, and re-raises everything else); the first exception ends    *)
(* the cycle in the except clause of check_for_new_tasks.  Saving the set  *)
(* to its file (SpecTracker) does not change the set.                      *)
(***************************************************************************)
MaxPublished == 2
\* the pages of the Notion database, in the order fetch_tasks returns them;
\* the second has no id
MonitorPages == <<"n1", "", "n2", "n3">>
MonitorIds == {"n1", "n2", "n3"}

\* what fetch_tasks returns in a cycle: every page, each one ready or not
\* (ready: _has_ai_employee_assigned and _is_status_processable both hold);
\* users edit the pages between cycles
fetch_tasks(ready) ==
    [i \in 1..Len(MonitorPages) |-> [id |-> MonitorPages[i], ready |-> i \in ready]]

RECURSIVE SelectTasks(_, _)
\* the tasks of a list that belong to a set, in the order of the list
SelectTasks(tasks, keep) ==
    IF tasks = <<>> THEN <<>>
    ELSE IF Head(tasks) \in keep THEN <<Head(tasks)>> \o SelectTasks(Tail(tasks), keep)
    ELSE SelectTasks(Tail(tasks), keep)

TasksOf(all_tasks) == {all_tasks[i] : i \in 1..Len(all_tasks)}

\* the mutant: get_new_tasks hands back every task that has an id
get_new_tasks_Unfiltered(processed_tasks, all_tasks) ==
    SelectTasks(all_tasks, {t \in TasksOf(all_tasks) : t.id # ""})

\* TaskTracker.get_new_tasks
get_new_tasks(processed_tasks, all_tasks) ==
    SelectTasks(all_tasks, {t \in TasksOf(all_tasks) : t.id # "" /\ t.id \notin processed_tasks})

\* the filter loop of check_for_new_tasks (lines 77-83)
ai_tasks_of(new_tasks) == SelectTasks(new_tasks, {t \in TasksOf(new_tasks) : t.ready})

InitMonitor ==
    /\ tracker = [pc |-> "sleeping", processed_tasks |-> {}, ai_tasks |-> <<>>,
                  offered |-> {}, published |-> [i \in MonitorIds |-> 0], failed |-> {}]
    /\ life = IdleSide /\ runs = IdleSide /\ chk = IdleSide /\ evrepo = IdleSide
    /\ svc = IdleSvc /\ wf = IdleWf /\ DomainOff
    /\ ConsumerOff

\* check_for_new_tasks up to its publishing loop (lines 58-86): found is
\* whether fetch_tasks returned anything, ready the pages that are ready.
\* offered keeps the ids that were ready and not yet marked at the fetch.
CheckForNewTasks(found, ready) ==
    /\ tracker.pc = "sleeping"
    /\ LET all_tasks == IF found THEN fetch_tasks(ready) ELSE <<>>
           new_tasks == get_new_tasks(tracker.processed_tasks, all_tasks)
           ai_tasks == ai_tasks_of(new_tasks)
       IN tracker' = [tracker EXCEPT
                        !.ai_tasks = ai_tasks,
                        !.offered = {t.id : t \in {u \in TasksOf(all_tasks) :
                                        u.ready /\ u.id # ""
                                           /\ u.id \notin tracker.processed_tasks}},
                        !.pc = IF ai_tasks = <<>> THEN "sleeping" ELSE "publishing"]
    /\ UNCHANGED <<consumerVars, svc, wf, hnd, reg, life, runs, chk, evrepo>>

\* self.rabbitmq_publisher.publish_task(task) returns (the queue has the
\* task) or raises (the cycle is over: line 98)
PublishTask(o) ==
    /\ tracker.pc = "publishing"
    /\ LET id == Head(tracker.ai_tasks).id IN
         /\ o = "ok" => tracker.published[id] < MaxPublished
         /\ tracker' = IF o = "ok"
                       THEN [tracker EXCEPT !.published[id] = @ + 1, !.pc = "marking"]
                       ELSE [tracker EXCEPT !.failed = @ \cup {id}, !.ai_tasks = <<>>,
                                            !.pc = "sleeping"]
    /\ UNCHANGED <<consumerVars, svc, wf, hnd, reg, life, runs, chk, evrepo>>

\* self.task_tracker.mark_task_processed(task["id"]), then the next task of
\* the loop or the end of the cycle
MarkTaskProcessed ==
    /\ tracker.pc = "marking"
    /\ tracker' = [tracker EXCEPT
                     !.processed_tasks = @ \cup {Head(tracker.ai_tasks).id},
                     !.ai_tasks = Tail(@),
                     !.pc = IF Len(tracker.ai_tasks) = 1 THEN "sleeping" ELSE "publishing"]
    /\ UNCHANGED <<consumerVars, svc, wf, hnd, reg, life, runs, chk, evrepo>>

NextMonitor ==
    \/ \E found \in BOOLEAN, ready \in SUBSET (1..Len(MonitorPages)) :
          CheckForNewTasks(found, ready)
    \/ \E o \in {"ok", "raise"} : PublishTask(o)
    \/ MarkTaskProcessed

SpecMonitor == InitMonitor /\ [][NextMonitor]_vars

QueuedIds(ai_tasks) == {ai_tasks[i].id : i \in 1..Len(ai_tasks)}

\* C39: an id enters processed_tasks only after its task was published
\* without error; a task whose id is in processed_tasks is not published
\* again, so no task reaches the queue twice; a failed publication leaves
\* the task unmarked, and a cycle offers for publication every ready task
\* that is not marked, the ones that failed before included.
C39_MarkedAfterPublished ==
    /\ [](\A i \in tracker.processed_tasks : tracker.published[i] >= 1)
    /\ [](\A i \in MonitorIds : tracker.published[i] <= 1)
    /\ [][/\ \A i \in tracker'.processed_tasks \ tracker.processed_tasks :
                tracker.published[i] >= 1
          /\ \A i \in MonitorIds :
                tracker'.published[i] > tracker.published[i] =>
                    i \notin tracker.processed_tasks
          /\ \A i \in tracker'.failed \ tracker.failed :
                i \notin tracker'.processed_tasks /\ tracker'.published = tracker.published
          /\ (tracker.pc = "sleeping" /\ tracker' # tracker) =>
                QueuedIds(tracker'.ai_tasks) = tracker'.offered]_vars

\* the publication of n1 failed in one cycle, a later cycle offered it again,
\* published it and marked it; n2, after it in the list, went the same way
C39_PublishedOnRetry ==
    /\ "n1" \in tracker.failed /\ "n1" \in tracker.processed_tasks
    /\ tracker.published["n1"] = 1
    /\ "n2" \in tracker.processed_tasks
    /\ tracker.pc = "sleeping"

====
